---- MODULE Spec2Model ----
(***************************************************************************)
(* Hash-join kernel (polars-core/src/frame/hash_join.rs) and the join      *)
(* schema derivation of the lazy logical plan                              *)
(* (polars-lazy/src/logical_plan/mod.rs).                                  *)
(*                                                                         *)
(* Row indices are 0-based as in the source (u32); TLA+ sequences are      *)
(* 1-based, so row i of a column ca is ca[i + 1].                          *)
(* Option<T> is modelled as a sequence: None is << >>, Some(v) is <<v>>.   *)
(***************************************************************************)
EXTENDS Integers, Sequences, FiniteSets, TLC

VARIABLES
    left,           \* key column of the left table (self): sequence of Option cells
    right,          \* key column of the right table (other)
    how,            \* JoinType: "Inner" | "Left" | "Outer"
    dtype,          \* data type of the key columns; selects the HashJoin impl
    n_threads,      \* value returned by n_join_threads() for this call
    seed,           \* the RandomState shared by builder and prober
    lens_a,         \* lengths of the slices split_ca made of the probe relation
    pc,             \* "start" | "probe" | "drain" | "done"
    hash_tbls,      \* the hash tables built over the build relation
    pos,            \* per probe task: number of its rows already probed
    results,        \* per probe task: its `results` vector
    iter_left,      \* outer join: buckets hash_tbl.iter() has not yielded yet
    join_tuples,    \* the pair stream returned by the kernel
    df_left,        \* DataFrame join: the left table (self)
    df_right,       \* DataFrame join: the right table (other)
    left_on,        \* name of the left key column
    right_on,       \* name of the right key column
    taken,          \* which closures of POOL.join have run: "left", "right"
    part_left,      \* the gathered left part (df_left of the join method)
    part_right,     \* the gathered right part (df_right of the join method)
    joined,         \* the table returned by the join
    plan,           \* the logical plan built so far
    env,            \* value of the environment variable POLARS_MAX_THREADS
    cpus,           \* num_cpus::get()
    n_keys,         \* number of key columns given to DataFrame::join
    outcome,        \* how the last join call ended: "none" | "ok" | "panic"
    prev,           \* the plan the last builder method was called on
    call,           \* the last builder call: its method and arguments
    n_calls,        \* number of calls made so far (builder methods, joins)
    hash,           \* get_hash_tbl: the hash h of the probed key
    n_tables,       \* get_hash_tbl: the number of hash tables (len)
    tbl_idx,        \* get_hash_tbl: the index selected, None before the call
    joined_hack     \* the table returned by the join on the encoded key

kernel_vars == <<left, right, how, dtype, n_threads, seed, lens_a,
                 pc, hash_tbls, pos, results, iter_left, join_tuples>>

env_vars == <<env, cpus, n_keys, outcome>>

builder_vars == <<prev, call, n_calls>>

shard_vars == <<hash, n_tables, tbl_idx>>

frame_vars == <<df_left, df_right, left_on, right_on, taken, part_left,
                part_right, joined, plan, env_vars, builder_vars,
                shard_vars, joined_hack>>

vars == <<kernel_vars, frame_vars>>

(***************************************************************************)
(* Bounds of the model.                                                    *)
(***************************************************************************)
MaxLen == 2         \* rows per key column
NKeys == 2          \* distinct non-null key values
MaxThreads == 2     \* largest thread count
HashBits == 4       \* width of the hash word in the model (u64 in the source)
UsizeBits == 4      \* width of usize in the model (64 in the source)
MaxText == 2        \* characters in the value of POLARS_MAX_THREADS
MaxCpus == 3        \* largest num_cpus::get()
MaxKeyCols == 7     \* largest number of key columns given to DataFrame::join
MaxJoinCalls == 2   \* join calls in a row
MaxFields == 3      \* fields of the scanned table of a plan
MaxExprs == 3       \* expressions in the list given to one builder call
MaxCalls == 2       \* builder calls in a row
MaxTables == 4      \* hash tables get_hash_tbl selects among
MaxRows == 3        \* rows per table of a join on two key columns

HashSpace == 2 ^ HashBits

(***************************************************************************)
(* Option and sequence helpers.                                            *)
(***************************************************************************)
None == << >>
Some(v) == <<v>>

Range(s) == {s[i] : i \in DOMAIN s}

RECURSIVE Flatten(_)
Flatten(ss) == IF ss = << >> THEN << >> ELSE Head(ss) \o Flatten(Tail(ss))

RECURSIVE SumSeq(_)
SumSeq(s) == IF s = << >> THEN 0 ELSE Head(s) + SumSeq(Tail(s))

Count(s, x) == Cardinality({i \in DOMAIN s : s[i] = x})

Cells == {None} \cup {Some(v) : v \in 1..NKeys}
KeyColumns == UNION {[1..m -> Cells] : m \in 0..MaxLen}

JoinTypes == {"Inner", "Left", "Outer"}

\* Integer and Utf8 keys take the threaded inner/left kernels, Boolean keys
\* the single-threaded ones.
DTypes == {"Int32", "Boolean"}
ThreadedTypes == {"Int32"}

Seeds == {0, 1}

(***************************************************************************)
(* det_hash_prone_order!: the shortest relation is hashed (b), the other   *)
(* probed (a); swap tells that the left table is the hashed one.           *)
(***************************************************************************)
\* det_hash_prone_order! that probes the left table also when the lengths are equal
det_hash_prone_order_ge(self, other) ==
    LET left_first == Len(self) >= Len(other)
    IN  IF left_first
        THEN [a |-> self, b |-> other, swap |-> ~left_first]
        ELSE [a |-> other, b |-> self, swap |-> ~left_first]

det_hash_prone_order(self, other) ==
    LET left_first == Len(self) > Len(other)
    IN  IF left_first
        THEN [a |-> self, b |-> other, swap |-> ~left_first]
        ELSE [a |-> other, b |-> self, swap |-> ~left_first]

(***************************************************************************)
(* get_hash_tbl: index of the table probed for hash h among len tables.    *)
(* The loop keeps the last i in 0..len-1 with (h + i) % len = 0; h + i is  *)
(* computed in the hash word.                                              *)
(***************************************************************************)
RECURSIVE get_hash_tbl_loop(_, _, _, _)
get_hash_tbl_loop(h, len, i, idx) ==
    IF i >= len THEN idx
    ELSE get_hash_tbl_loop(h, len, i + 1,
            IF ((h + i) % HashSpace) % len = 0 THEN i ELSE idx)

get_hash_tbl(h, len) == get_hash_tbl_loop(h, len, 0, 0)

(***************************************************************************)
(* The hasher (ahash RandomState): a function of the seed and the key.     *)
(* Seed 0 is injective with small hashes; seed 1 makes distinct keys       *)
(* collide and yields hashes at the top of the hash word.                  *)
(***************************************************************************)
KeyCode(k) == IF k = None THEN 0 ELSE k[1]

HashOf(s, k) ==
    IF s = 0
    THEN KeyCode(k) % HashSpace
    ELSE (HashSpace - 1 - (KeyCode(k) \div 2)) % HashSpace

(***************************************************************************)
(* Hash tables: HashMap<T, Vec<u32>> is a function from the keys present   *)
(* to the list of row indices in insertion order.                          *)
(***************************************************************************)
EmptyTbl == << >>

Insert(tbl, k, idx) ==
    IF k \in DOMAIN tbl
    THEN [tbl EXCEPT ![k] = Append(@, idx)]
    ELSE [x \in DOMAIN tbl \cup {k} |-> IF x = k THEN <<idx>> ELSE tbl[x]]

Remove(tbl, k) == [x \in DOMAIN tbl \ {k} |-> tbl[x]]

RECURSIVE prepare_loop(_, _, _)
prepare_loop(tbl, b, idx) ==
    IF idx >= Len(b) THEN tbl
    ELSE prepare_loop(Insert(tbl, b[idx + 1], idx), b, idx + 1)

\* vector_hasher::prepare_hashed_relation
prepare_hashed_relation(b) == prepare_loop(EmptyTbl, b, 0)

(***************************************************************************)
(* split_ca: n contiguous slices, given by their lengths. The probe        *)
(* relation is cut in every possible way; the build relation in chunks of  *)
(* len / n rows, the last slice taking the rest (the tables built do not   *)
(* depend on where it is cut).                                             *)
(***************************************************************************)
Splits(len, n) == {ls \in [1..n -> 0..len] : SumSeq(ls) = len}

EvenSplit(len, n) ==
    [p \in 1..n |-> IF p = n THEN len - (n - 1) * (len \div n) ELSE len \div n]

\* Offsets with an inclusive prefix sum instead of the exclusive one
Offsets_inclusive(lens) == [p \in DOMAIN lens |-> SumSeq(SubSeq(lens, 1, p))]

\* exclusive prefix sum of the slice lengths
Offsets(lens) == [p \in DOMAIN lens |-> SumSeq(SubSeq(lens, 1, p - 1))]

split_ca(ca, lens) ==
    [p \in DOMAIN lens |->
        SubSeq(ca, SumSeq(SubSeq(lens, 1, p - 1)) + 1,
                   SumSeq(SubSeq(lens, 1, p - 1)) + lens[p])]

\* vector_hasher::create_hash_and_keys_threaded_vectorized: per slice the
\* (hash, key) of each row
create_hash_and_keys_threaded_vectorized(iters, random_state) ==
    [p \in DOMAIN iters |->
        [r \in DOMAIN iters[p] |-> <<HashOf(random_state, iters[p][r]), iters[p][r]>>]]

RECURSIVE prepare_threaded_loop(_, _, _, _, _, _)
prepare_threaded_loop(tbl, rows, idx, thread_no, n, random_state) ==
    IF idx >= Len(rows) THEN tbl
    ELSE prepare_threaded_loop(
            IF get_hash_tbl(HashOf(random_state, rows[idx + 1]), n) = thread_no
            THEN Insert(tbl, rows[idx + 1], idx) ELSE tbl,
            rows, idx + 1, thread_no, n, random_state)

\* vector_hasher::prepare_hashed_relation_threaded: one table per slice; every
\* builder scans all slices and keeps the rows whose hash selects its table
prepare_hashed_relation_threaded(iters, random_state) ==
    [t \in DOMAIN iters |->
        prepare_threaded_loop(EmptyTbl, Flatten(iters), 0, t - 1, Len(iters),
                              random_state)]

(***************************************************************************)
(* Probe steps of the single-threaded kernels: the pairs one probe row     *)
(* (idx_a, key) adds to `results`.                                         *)
(***************************************************************************)
\* hash_join_tuples_inner_probe without the swap of the coordinates
hash_join_tuples_inner_probe_noswap(hash_tbl, idx_a, key, swap) ==
    IF key \in DOMAIN hash_tbl
    THEN [n \in 1..Len(hash_tbl[key]) |-> <<idx_a, hash_tbl[key][n]>>]
    ELSE << >>

\* hash_join_tuples_inner, body of a.enumerate().for_each
hash_join_tuples_inner_probe(hash_tbl, idx_a, key, swap) ==
    IF key \in DOMAIN hash_tbl
    THEN [n \in 1..Len(hash_tbl[key]) |->
            IF swap THEN <<hash_tbl[key][n], idx_a>>
                    ELSE <<idx_a, hash_tbl[key][n]>>]
    ELSE << >>

\* hash_join_tuples_left_probe that drops the unmatched probe row
hash_join_tuples_left_probe_drop(hash_tbl, idx_a, key) ==
    IF key \in DOMAIN hash_tbl
    THEN [n \in 1..Len(hash_tbl[key]) |-> <<idx_a, Some(hash_tbl[key][n])>>]
    ELSE << >>

\* hash_join_tuples_left, body of a.enumerate().for_each
hash_join_tuples_left_probe(hash_tbl, idx_a, key) ==
    IF key \in DOMAIN hash_tbl
    THEN [n \in 1..Len(hash_tbl[key]) |-> <<idx_a, Some(hash_tbl[key][n])>>]
    ELSE << <<idx_a, None>> >>

\* hash_join_tuples_outer, body of a.enumerate().for_each (the bucket found is
\* removed from the table by the caller)
\* hash_join_tuples_outer probe body that ignores swap
hash_join_tuples_outer_probe_noswap(hash_tbl, idx_a, key, swap) ==
    IF key \in DOMAIN hash_tbl
    THEN [n \in 1..Len(hash_tbl[key]) |-> <<Some(idx_a), Some(hash_tbl[key][n])>>]
    ELSE << <<Some(idx_a), None>> >>

\* hash_join_tuples_outer, body of the probe loop (before the bucket is removed)
hash_join_tuples_outer_probe(hash_tbl, idx_a, key, swap) ==
    IF key \in DOMAIN hash_tbl
    THEN [n \in 1..Len(hash_tbl[key]) |->
            IF swap THEN <<Some(hash_tbl[key][n]), Some(idx_a)>>
                    ELSE <<Some(idx_a), Some(hash_tbl[key][n])>>]
    ELSE IF swap THEN << <<None, Some(idx_a)>> >>
                 ELSE << <<Some(idx_a), None>> >>

\* hash_join_tuples_outer_rest that emits only the first index of a bucket
hash_join_tuples_outer_rest_first(indexes_b, swap) ==
    [n \in 1..1 |->
        IF swap THEN <<Some(indexes_b[n]), None>>
                ELSE <<None, Some(indexes_b[n])>>]

\* hash_join_tuples_outer, body of hash_tbl.iter().for_each
hash_join_tuples_outer_rest(indexes_b, swap) ==
    [n \in 1..Len(indexes_b) |->
        IF swap THEN <<Some(indexes_b[n]), None>>
                ELSE <<None, Some(indexes_b[n])>>]

(***************************************************************************)
(* Probe steps of the threaded kernels: the row is looked up in the table  *)
(* get_hash_tbl selects for its hash.                                      *)
(***************************************************************************)
\* hash_join_tuples_inner_threaded probe body that walks the bucket backwards
hash_join_tuples_inner_threaded_probe_rev(tbls, local_idx, offset, h, k, swap) ==
    LET idx_a == local_idx + offset
        current_probe_table == tbls[get_hash_tbl(h, Len(tbls)) + 1]
    IN  IF k \in DOMAIN current_probe_table
        THEN [n \in 1..Len(current_probe_table[k]) |->
                LET idx_b == current_probe_table[k][Len(current_probe_table[k]) + 1 - n]
                IN  IF swap THEN <<idx_b, idx_a>> ELSE <<idx_a, idx_b>>]
        ELSE << >>

hash_join_tuples_inner_threaded_probe(tbls, local_idx, offset, h, k, swap) ==
    LET idx_a == local_idx + offset
        current_probe_table == tbls[get_hash_tbl(h, Len(tbls)) + 1]
    IN  IF k \in DOMAIN current_probe_table
        THEN [n \in 1..Len(current_probe_table[k]) |->
                IF swap THEN <<current_probe_table[k][n], idx_a>>
                        ELSE <<idx_a, current_probe_table[k][n]>>]
        ELSE << >>

hash_join_tuples_left_threaded_probe(tbls, local_idx, offset, h, k) ==
    LET idx_a == local_idx + offset
        current_probe_table == tbls[get_hash_tbl(h, Len(tbls)) + 1]
    IN  IF k \in DOMAIN current_probe_table
        THEN [n \in 1..Len(current_probe_table[k]) |->
                <<idx_a, Some(current_probe_table[k][n])>>]
        ELSE << <<idx_a, None>> >>

(***************************************************************************)
(* The single-threaded inner and left kernels as functions of their        *)
(* inputs.                                                                 *)
(***************************************************************************)
RECURSIVE inner_loop(_, _, _, _)
inner_loop(hash_tbl, a, idx_a, swap) ==
    IF idx_a >= Len(a) THEN << >>
    ELSE hash_join_tuples_inner_probe(hash_tbl, idx_a, a[idx_a + 1], swap)
         \o inner_loop(hash_tbl, a, idx_a + 1, swap)

hash_join_tuples_inner(a, b, swap) ==
    inner_loop(prepare_hashed_relation(b), a, 0, swap)

RECURSIVE left_loop(_, _, _)
left_loop(hash_tbl, a, idx_a) ==
    IF idx_a >= Len(a) THEN << >>
    ELSE hash_join_tuples_left_probe(hash_tbl, idx_a, a[idx_a + 1])
         \o left_loop(hash_tbl, a, idx_a + 1)

hash_join_tuples_left(a, b) == left_loop(prepare_hashed_relation(b), a, 0)

(***************************************************************************)
(* One call of HashJoin::hash_join_inner / _left / _outer on the two key   *)
(* columns.                                                                *)
(***************************************************************************)
\* which impl runs: the threaded kernels serve inner and left joins of
\* integer and string keys; outer joins and Boolean keys are single-threaded
Threaded == how \in {"Inner", "Left"} /\ dtype \in ThreadedTypes

\* hash_join_left probes self and hashes other whatever their lengths
Order ==
    IF how = "Left" THEN [a |-> left, b |-> right, swap |-> FALSE]
    ELSE det_hash_prone_order(left, right)

NTasks == IF Threaded THEN n_threads ELSE 1

Init ==
    /\ left \in KeyColumns
    /\ right \in KeyColumns
    /\ how \in JoinTypes
    /\ dtype \in DTypes
    /\ IF Threaded
       THEN /\ n_threads \in 1..MaxThreads
            /\ seed \in Seeds
            /\ lens_a \in Splits(Len(Order.a), n_threads)
       ELSE /\ n_threads = 1
            /\ seed = 0
            /\ lens_a = <<Len(Order.a)>>
    /\ pc = "start"
    /\ hash_tbls = << >>
    /\ pos = [p \in 1..NTasks |-> 0]
    /\ results = [p \in 1..NTasks |-> << >>]
    /\ iter_left = {}
    /\ join_tuples = << >>
    /\ df_left = << >> /\ df_right = << >>
    /\ left_on = "" /\ right_on = ""
    /\ taken = {}
    /\ part_left = << >> /\ part_right = << >>
    /\ joined = << >>
    /\ plan = << >>
    /\ env = << >> /\ cpus = 1 /\ n_keys = 1 /\ outcome = "none"
    /\ prev = << >> /\ call = << >> /\ n_calls = 0
    /\ hash = 0 /\ n_tables = 1 /\ tbl_idx = << >> /\ joined_hack = << >>

\* "first we hash one relation"
Build ==
    /\ pc = "start"
    /\ hash_tbls' =
          IF Threaded
          THEN prepare_hashed_relation_threaded(
                   split_ca(Order.b, EvenSplit(Len(Order.b), n_threads)), seed)
          ELSE <<prepare_hashed_relation(Order.b)>>
    /\ pc' = "probe"
    /\ UNCHANGED <<left, right, how, dtype, n_threads, seed, lens_a,
                   pos, results, iter_left, join_tuples>>
    /\ UNCHANGED frame_vars

\* one row of probe task p of hash_join_tuples_{inner,left}_threaded
ProbeThreaded(p) ==
    /\ pc = "probe"
    /\ Threaded
    /\ pos[p] < lens_a[p]
    /\ LET probe_hashes ==
               create_hash_and_keys_threaded_vectorized(
                   split_ca(Order.a, lens_a), seed)
           hk == probe_hashes[p][pos[p] + 1]
           offset == Offsets(lens_a)[p]
           tuples ==
               IF how = "Inner"
               THEN hash_join_tuples_inner_threaded_probe(
                        hash_tbls, pos[p], offset, hk[1], hk[2], Order.swap)
               ELSE hash_join_tuples_left_threaded_probe(
                        hash_tbls, pos[p], offset, hk[1], hk[2])
       IN  results' = [results EXCEPT ![p] = @ \o tuples]
    /\ pos' = [pos EXCEPT ![p] = @ + 1]
    /\ UNCHANGED <<left, right, how, dtype, n_threads, seed, lens_a,
                   pc, hash_tbls, iter_left, join_tuples>>
    /\ UNCHANGED frame_vars

\* one row of the probe loop of hash_join_tuples_inner / _left
ProbeSingle ==
    /\ pc = "probe"
    /\ ~Threaded
    /\ how \in {"Inner", "Left"}
    /\ pos[1] < Len(Order.a)
    /\ LET idx_a == pos[1]
           key == Order.a[idx_a + 1]
           tuples ==
               IF how = "Inner"
               THEN hash_join_tuples_inner_probe(hash_tbls[1], idx_a, key, Order.swap)
               ELSE hash_join_tuples_left_probe(hash_tbls[1], idx_a, key)
       IN  results' = [results EXCEPT ![1] = @ \o tuples]
    /\ pos' = [pos EXCEPT ![1] = @ + 1]
    /\ UNCHANGED <<left, right, how, dtype, n_threads, seed, lens_a,
                   pc, hash_tbls, iter_left, join_tuples>>
    /\ UNCHANGED frame_vars

\* one row of the probe loop of hash_join_tuples_outer: hash_tbl.remove(&key)
ProbeOuter ==
    /\ pc = "probe"
    /\ how = "Outer"
    /\ pos[1] < Len(Order.a)
    /\ LET idx_a == pos[1]
           key == Order.a[idx_a + 1]
       IN  /\ results' = [results EXCEPT ![1] = @ \o
                  hash_join_tuples_outer_probe(hash_tbls[1], idx_a, key, Order.swap)]
           /\ hash_tbls' = <<Remove(hash_tbls[1], key)>>
    /\ pos' = [pos EXCEPT ![1] = @ + 1]
    /\ UNCHANGED <<left, right, how, dtype, n_threads, seed, lens_a,
                   pc, iter_left, join_tuples>>
    /\ UNCHANGED frame_vars

\* the probe loop of hash_join_tuples_outer is over: hash_tbl.iter() starts
StartRest ==
    /\ pc = "probe"
    /\ how = "Outer"
    /\ pos[1] = Len(Order.a)
    /\ iter_left' = DOMAIN hash_tbls[1]
    /\ pc' = "drain"
    /\ UNCHANGED <<left, right, how, dtype, n_threads, seed, lens_a,
                   hash_tbls, pos, results, join_tuples>>
    /\ UNCHANGED frame_vars

\* hash_tbl.iter() yields the surviving buckets in an order of its own
OuterRest ==
    /\ pc = "drain"
    /\ \E k \in iter_left :
          /\ results' = [results EXCEPT ![1] = @ \o
                 hash_join_tuples_outer_rest(hash_tbls[1][k], Order.swap)]
          /\ iter_left' = iter_left \ {k}
    /\ UNCHANGED <<left, right, how, dtype, n_threads, seed, lens_a,
                   pc, hash_tbls, pos, join_tuples>>
    /\ UNCHANGED frame_vars

\* the kernel returns: the task buffers concatenated in task order
\* (.flatten().collect()), or the single `results` vector
Collect ==
    /\ \/ /\ pc = "probe"
          /\ how \in {"Inner", "Left"}
          /\ \A p \in DOMAIN pos : pos[p] = lens_a[p]
       \/ /\ pc = "drain"
          /\ iter_left = {}
    /\ join_tuples' = Flatten(results)
    /\ pc' = "done"
    /\ UNCHANGED <<left, right, how, dtype, n_threads, seed, lens_a,
                   hash_tbls, pos, results, iter_left>>
    /\ UNCHANGED frame_vars

Next ==
    \/ Build
    \/ \E p \in 1..MaxThreads : p <= NTasks /\ ProbeThreaded(p)
    \/ ProbeSingle
    \/ ProbeOuter
    \/ StartRest
    \/ OuterRest
    \/ Collect

Spec == Init /\ [][Next]_vars

(***************************************************************************)
(* DataFrame joins. A Series is a record [name, dtype, values]; a          *)
(* DataFrame is the sequence of its columns.                               *)
(***************************************************************************)
MaxCols == 3        \* columns per input table

Series(name, dt, values) == [name |-> name, dtype |-> dt, values |-> values]

Names(df) == [c \in DOMAIN df |-> df[c].name]

\* DataFrame::height
height(df) == IF df = << >> THEN 0 ELSE Len(df[1].values)

\* position of the first column called name (0 when there is none)
find_idx_by_name(df, name) ==
    IF \E c \in DOMAIN df : df[c].name = name
    THEN CHOOSE c \in DOMAIN df :
            /\ df[c].name = name
            /\ \A d \in 1..(c - 1) : df[d].name # name
    ELSE 0

\* DataFrame::column
column(df, name) == df[find_idx_by_name(df, name)]

\* DataFrame::drop: the table without the column called name
drop(df, name) ==
    LET idx == find_idx_by_name(df, name)
    IN  SubSeq(df, 1, idx - 1) \o SubSeq(df, idx + 1, Len(df))

\* take_iter_unchecked: gather every column by the row indices
take_iter_unchecked(df, idxs) ==
    [c \in DOMAIN df |->
        Series(df[c].name, df[c].dtype,
               [r \in DOMAIN idxs |-> df[c].values[idxs[r] + 1]])]

\* take_opt_iter_unchecked: gather, with a null where the index is absent
take_opt_iter_unchecked(df, opt_idxs) ==
    [c \in DOMAIN df |->
        Series(df[c].name, df[c].dtype,
               [r \in DOMAIN opt_idxs |->
                   IF opt_idxs[r] = None THEN None
                   ELSE df[c].values[opt_idxs[r][1] + 1]])]

\* DataFrame::rename: the first column called `col` is given the name `name`
rename(df, col, name) ==
    LET idx == find_idx_by_name(df, col)
    IN  [c \in DOMAIN df |->
            IF c = idx THEN Series(name, df[c].dtype, df[c].values) ELSE df[c]]

\* DataFrame::hstack_mut: the columns are appended
hstack_mut(df, columns) == df \o columns

RECURSIVE rename_all(_, _)
rename_all(df, rename_strs) ==
    IF rename_strs = << >> THEN df
    ELSE rename_all(rename(df, Head(rename_strs), Head(rename_strs) \o "_right"),
                    Tail(rename_strs))

\* DataFrame::finish_join
finish_join(l, r) ==
    LET left_names == {l[c].name : c \in DOMAIN l}
        InLeft(nm) == nm \in left_names
        rename_strs == SelectSeq(Names(r), InLeft)
    IN  hstack_mut(l, rename_all(r, rename_strs))

\* create_left_df gathering the first left row for every pair
create_left_df_first_row(df, tuples) ==
    take_iter_unchecked(df, [r \in DOMAIN tuples |-> 0])

\* DataFrame::create_left_df
create_left_df(df, tuples) ==
    take_iter_unchecked(df, [r \in DOMAIN tuples |-> tuples[r][1]])

\* TakeRandom::get_unchecked: the value of a cell; for a null cell the
\* payload the cell carries, which is not specified
get_unchecked(values, idx, payload) ==
    IF values[idx + 1] = None THEN Some(payload) ELSE values[idx + 1]

\* Series::rename
rename_series(s, name) == Series(name, s.dtype, s.values)

\* ZipOuterJoinColumn::zip_outer_join_column (impl_zip_outer_join!); the
\* collected array has no name yet
zip_outer_join_column(s_left, s_right, opt_join_tuples, payload) ==
    Series("", s_left.dtype,
        [r \in DOMAIN opt_join_tuples |->
            IF opt_join_tuples[r][1] # None
            THEN get_unchecked(s_left.values, opt_join_tuples[r][1][1], payload)
            ELSE get_unchecked(s_right.values, opt_join_tuples[r][2][1], payload)])

(***************************************************************************)
(* The single-threaded outer kernel as a function of its inputs and of the *)
(* order in which hash_tbl.iter() yields the surviving buckets.            *)
(***************************************************************************)
RECURSIVE outer_loop(_, _, _, _)
outer_loop(hash_tbl, a, idx_a, swap) ==
    IF idx_a >= Len(a) THEN [results |-> << >>, hash_tbl |-> hash_tbl]
    ELSE LET rest == outer_loop(Remove(hash_tbl, a[idx_a + 1]), a, idx_a + 1, swap)
         IN  [results |->
                 hash_join_tuples_outer_probe(hash_tbl, idx_a, a[idx_a + 1], swap)
                 \o rest.results,
              hash_tbl |-> rest.hash_tbl]

\* the keys left in the table after the probe loop
outer_survivors(a, b, swap) ==
    DOMAIN outer_loop(prepare_hashed_relation(b), a, 0, swap).hash_tbl

hash_join_tuples_outer(a, b, swap, order) ==
    LET probed == outer_loop(prepare_hashed_relation(b), a, 0, swap)
    IN  probed.results
        \o Flatten([n \in DOMAIN order |->
                hash_join_tuples_outer_rest(probed.hash_tbl[order[n]], swap)])

Perms(S) == {o \in [1..Cardinality(S) -> S] : Range(o) = S}

\* HashJoin::hash_join_inner / _left / _outer of the key columns (the
\* BooleanChunked impl, which calls the single-threaded kernels)
hash_join_inner(self, other) ==
    LET o == det_hash_prone_order(self, other)
    IN  hash_join_tuples_inner(o.a, o.b, o.swap)

hash_join_left(self, other) == hash_join_tuples_left(self, other)

hash_join_outer(self, other, order) ==
    LET o == det_hash_prone_order(self, other)
    IN  hash_join_tuples_outer(o.a, o.b, o.swap, order)

(***************************************************************************)
(* Logical plan: schemas are sequences of fields [name, dtype]; the nodes  *)
(* needed for a join are DataFrameScan and Join.                           *)
(***************************************************************************)
Field(name, dt) == [name |-> name, dtype |-> dt]

\* DataFrame::schema
df_schema(df) == [c \in DOMAIN df |-> Field(df[c].name, df[c].dtype)]

\* expressions used as join keys
col(name) == [kind |-> "Column", name |-> name]
alias(e, name) == [kind |-> "Alias", expr |-> e, name |-> name]

\* utils::output_name
output_name(e) == e.name

\* LogicalPlanBuilder::from_existing_df
from_existing_df(df) == [kind |-> "DataFrameScan", schema |-> df_schema(df)]

\* LogicalPlan::schema with a Udf node always reporting its input's schema
RECURSIVE schema_udf_input(_)
schema_udf_input(lp) ==
    IF lp.kind \in {"Cache", "Sort", "Explode", "Selection", "Distinct", "Slice", "Udf"}
    THEN schema_udf_input(lp.input)
    ELSE lp.schema

\* LogicalPlan::schema: stored in the node, or that of the input
RECURSIVE schema(_)
schema(lp) ==
    IF lp.kind \in {"Cache", "Sort", "Explode", "Selection", "Distinct", "Slice"}
    THEN schema(lp.input)
    ELSE IF lp.kind = "Udf"
    THEN IF lp.schema # None THEN lp.schema[1] ELSE schema(lp.input)
    ELSE lp.schema

\* the loop over schema_right.fields() with the renamed field taking the
\* name of the left field unchanged
join_fields_loop_keepname(fields, names, right_names, right_fields) ==
    fields \o SelectSeq(right_fields, LAMBDA f : f.name \notin right_names)

\* the loop over schema_right.fields() of LogicalPlanBuilder::join
RECURSIVE join_fields_loop(_, _, _, _)
join_fields_loop(fields, names, right_names, right_fields) ==
    IF right_fields = << >> THEN fields
    ELSE LET f == Head(right_fields)
             name == f.name
             pushed ==
                IF name \notin right_names
                THEN IF name \in names
                     THEN Append(fields, Field(name \o "_right", f.dtype))
                     ELSE Append(fields, f)
                ELSE fields
         IN  join_fields_loop(pushed, names, right_names, Tail(right_fields))

\* LogicalPlanBuilder::join
plan_join(self, other, join_how, l_on, r_on) ==
    LET schema_left == schema(self)
        schema_right == schema(other)
        names == {schema_left[c].name : c \in DOMAIN schema_left}
        right_names == {output_name(r_on[e]) : e \in DOMAIN r_on}
    IN  [kind |-> "Join",
         input_left |-> self,
         input_right |-> other,
         how |-> join_how,
         schema |-> join_fields_loop(schema_left, names, right_names, schema_right),
         left_on |-> l_on,
         right_on |-> r_on]

(***************************************************************************)
(* Expressions (Expr) and the expression utilities the plan builder uses.  *)
(***************************************************************************)
Wildcard == [kind |-> "Wildcard"]
Literal(dt) == [kind |-> "Literal", dtype |-> dt]
Not(e) == [kind |-> "Not", expr |-> e]
IsNull(e) == [kind |-> "IsNull", expr |-> e]
BinaryExpr(l, op, r) == [kind |-> "BinaryExpr", left |-> l, op |-> op, right |-> r]
Ternary(p, t, f) == [kind |-> "Ternary", predicate |-> p, truthy |-> t, falsy |-> f]
AggCount(e) == [kind |-> "Agg", agg |-> "Count", expr |-> e]
Except(e) == [kind |-> "Except", expr |-> e]

\* a value that is either a result or a panic
Ok(v) == [panic |-> FALSE, value |-> v]
Panic == [panic |-> TRUE]

\* replace_wildcard_with_column that descends into every child
RECURSIVE replace_wildcard_everywhere(_, _)
replace_wildcard_everywhere(expr, column_name) ==
    CASE expr.kind = "Wildcard" -> col(column_name)
      [] expr.kind \in {"Not", "IsNull", "Agg", "Alias"} ->
            [expr EXCEPT !.expr = replace_wildcard_everywhere(@, column_name)]
      [] expr.kind = "BinaryExpr" ->
            [expr EXCEPT !.left = replace_wildcard_everywhere(@, column_name),
                         !.right = replace_wildcard_everywhere(@, column_name)]
      [] expr.kind = "Ternary" ->
            [expr EXCEPT !.predicate = replace_wildcard_everywhere(@, column_name),
                         !.truthy = replace_wildcard_everywhere(@, column_name),
                         !.falsy = replace_wildcard_everywhere(@, column_name)]
      [] OTHER -> expr

\* replace_wildcard_with_column
RECURSIVE replace_wildcard_with_column(_, _)
replace_wildcard_with_column(expr, column_name) ==
    CASE expr.kind = "Wildcard" -> col(column_name)
      [] expr.kind \in {"Not", "IsNull", "Agg", "Alias"} ->
            [expr EXCEPT !.expr = replace_wildcard_with_column(@, column_name)]
      [] expr.kind = "BinaryExpr" ->
            [expr EXCEPT !.left = replace_wildcard_with_column(@, column_name),
                         !.right = replace_wildcard_with_column(@, column_name)]
      [] expr.kind = "Ternary" ->
            [expr EXCEPT !.predicate = replace_wildcard_with_column(@, column_name)]
      [] expr.kind \in {"Column", "Literal", "Except"} -> expr

\* the nodes of an expression tree, as the expression iterator visits them
RECURSIVE expr_nodes(_)
expr_nodes(e) ==
    <<e>> \o
    CASE e.kind \in {"Not", "IsNull", "Agg", "Alias", "Except"} -> expr_nodes(e.expr)
      [] e.kind = "BinaryExpr" -> expr_nodes(e.left) \o expr_nodes(e.right)
      [] e.kind = "Ternary" ->
            expr_nodes(e.predicate) \o expr_nodes(e.truthy) \o expr_nodes(e.falsy)
      [] OTHER -> << >>

\* utils::has_expr: some node is of the variant of matching_expr
has_expr(current_expr, matching_expr) ==
    \E n \in DOMAIN expr_nodes(current_expr) :
        LET e == expr_nodes(current_expr)[n]
        IN  /\ e.kind = matching_expr.kind
            /\ e.kind = "Agg" => e.agg = matching_expr.agg

\* utils::expr_to_root_column_exprs: the Column and Wildcard leaves
expr_to_root_column_exprs(expr) ==
    SelectSeq(expr_nodes(expr), LAMBDA e : e.kind \in {"Column", "Wildcard"})

\* utils::expr_to_root_column_name: Some(name) for Ok, None for Err
expr_to_root_column_name(expr) ==
    LET roots == expr_to_root_column_exprs(expr)
    IN  IF Len(roots) = 1 /\ roots[1].kind = "Column" THEN Some(roots[1].name)
        ELSE None

\* the root leaf of an expression replaced by a column
RECURSIVE replace_root(_, _)
replace_root(expr, name) ==
    CASE expr.kind \in {"Wildcard", "Column"} -> col(name)
      [] expr.kind \in {"Not", "IsNull", "Agg", "Alias", "Except"} ->
            [expr EXCEPT !.expr = replace_root(@, name)]
      [] expr.kind = "BinaryExpr" ->
            [expr EXCEPT !.left = replace_root(@, name), !.right = replace_root(@, name)]
      [] expr.kind = "Ternary" ->
            [expr EXCEPT !.predicate = replace_root(@, name),
                         !.truthy = replace_root(@, name),
                         !.falsy = replace_root(@, name)]
      [] OTHER -> expr

\* utils::rename_expr_root_name: Err (None) unless there is one root
rename_expr_root_name(expr, new_name) ==
    IF Len(expr_to_root_column_exprs(expr)) = 1
    THEN Some(replace_root(expr, new_name))
    ELSE None

\* Vec::swap_remove: the element at idx (0-based) is replaced by the last
swap_remove(v, idx) ==
    IF idx = Len(v) - 1 THEN SubSeq(v, 1, Len(v) - 1)
    ELSE [n \in 1..(Len(v) - 1) |-> IF n = idx + 1 THEN v[Len(v)] ELSE v[n]]

\* rewrite_projections, the expressions of one wildcard expression
expand_wildcard(expr, fields) ==
    [c \in DOMAIN fields |-> replace_wildcard_with_column(expr, fields[c].name)]

\* rewrite_projections, first loop: [result, exclude], or Panic
RECURSIVE rewrite_loop(_, _, _, _)
rewrite_loop(exprs, fields, result, exclude) ==
    IF exprs = << >> THEN Ok([result |-> result, exclude |-> exclude])
    ELSE LET expr == Head(exprs)
             rest == Tail(exprs)
         IN  IF expr.kind = "Except"
             THEN IF expr.expr.kind = "Column"
                  THEN rewrite_loop(rest, fields, result, Append(exclude, expr.expr.name))
                  ELSE Panic
             ELSE IF \E n \in DOMAIN expr_to_root_column_exprs(expr) :
                        expr_to_root_column_exprs(expr)[n].kind = "Wildcard"
             THEN IF has_expr(expr, AggCount(Wildcard))
                  THEN LET renamed == rename_expr_root_name(expr, fields[1].name)
                       IN  IF renamed = None THEN Panic
                           ELSE rewrite_loop(rest, fields,
                                    Append(result,
                                        IF renamed[1].kind = "Alias" THEN renamed[1]
                                        ELSE alias(renamed[1], "count")),
                                    exclude)
                  ELSE rewrite_loop(rest, fields,
                           result \o expand_wildcard(expr, fields), exclude)
             ELSE rewrite_loop(rest, fields, Append(result, expr), exclude)

\* rewrite_projections, second loop: the excluded names are removed
RECURSIVE exclude_loop(_, _)
exclude_loop(result, exclude) ==
    IF exclude = << >> THEN result
    ELSE LET hits == {n \in DOMAIN result :
                        expr_to_root_column_name(result[n]) = Some(Head(exclude))}
         IN  IF hits = {} THEN exclude_loop(result, Tail(exclude))
             ELSE exclude_loop(
                      swap_remove(result, (CHOOSE n \in hits : \A m \in hits : n <= m) - 1),
                      Tail(exclude))

\* rewrite_projections: Ok(list) or Panic
rewrite_projections(exprs, sch) ==
    LET first == rewrite_loop(exprs, sch, << >>, << >>)
    IN  IF first.panic THEN Panic
        ELSE Ok(exclude_loop(first.value.result, first.value.exclude))

(***************************************************************************)
(* Schemas of expressions, and the methods of LogicalPlanBuilder. A method *)
(* yields Ok(plan), or Panic when an unwrap or expect in it fails.         *)
(***************************************************************************)
ComparisonOps == {"Eq", "And", "Or"}

\* Schema::index_of / field_with_name: position of the first field called
\* name, 0 when there is none
index_of(fields, name) ==
    IF \E c \in DOMAIN fields : fields[c].name = name
    THEN CHOOSE c \in DOMAIN fields :
            fields[c].name = name /\ \A d \in 1..(c - 1) : fields[d].name # name
    ELSE 0

\* Expr::to_field: Ok(field), or Panic for an Err that the callers unwrap
\* and for the panic on a wildcard
RECURSIVE to_field(_, _, _)
to_field(e, sch, ctxt) ==
    CASE e.kind = "Column" ->
            IF index_of(sch, e.name) = 0 THEN Panic ELSE Ok(sch[index_of(sch, e.name)])
      [] e.kind = "Literal" -> Ok(Field("lit", e.dtype))
      [] e.kind = "Alias" ->
            LET f == to_field(e.expr, sch, ctxt)
            IN  IF f.panic THEN Panic ELSE Ok(Field(e.name, f.value.dtype))
      [] e.kind = "Not" -> Ok(Field("not", "Boolean"))
      [] e.kind = "IsNull" -> Ok(Field("is_null", "Boolean"))
      [] e.kind = "BinaryExpr" ->
            LET l == to_field(e.left, sch, ctxt)
                r == to_field(e.right, sch, ctxt)
            IN  IF l.panic \/ r.panic THEN Panic
                ELSE Ok(Field(IF l.value.name = "lit" THEN r.value.name ELSE l.value.name,
                              IF e.op \in ComparisonOps THEN "Boolean" ELSE l.value.dtype))
      [] e.kind = "Ternary" -> to_field(e.truthy, sch, ctxt)
      [] e.kind = "Agg" ->
            LET f == to_field(e.expr, sch, ctxt)
            IN  IF f.panic THEN Panic
                ELSE Ok(Field(IF ctxt = "Aggregation" THEN f.value.name \o "_count"
                              ELSE f.value.name, "UInt32"))
      [] OTHER -> Panic

\* utils::expressions_to_schema
expressions_to_schema(exprs, sch, ctxt) ==
    IF \E n \in DOMAIN exprs : to_field(exprs[n], sch, ctxt).panic THEN Panic
    ELSE Ok([n \in DOMAIN exprs |-> to_field(exprs[n], sch, ctxt).value])

\* Schema::try_merge of two schemas: a field that is already there is
\* skipped, a field of the same name and another type is an Err (unwrapped)
RECURSIVE try_merge(_, _)
try_merge(merged, fields) ==
    IF fields = << >> THEN Ok(merged)
    ELSE LET f == Head(fields)
             idx == index_of(merged, f.name)
         IN  IF idx = 0 THEN try_merge(Append(merged, f), Tail(fields))
             ELSE IF merged[idx] = f THEN try_merge(merged, Tail(fields))
             ELSE Panic

\* prepare_projection
prepare_projection(exprs, sch) ==
    LET rewritten == rewrite_projections(exprs, sch)
    IN  IF rewritten.panic THEN Panic
        ELSE IF expressions_to_schema(rewritten.value, sch, "Other").panic THEN Panic
        ELSE Ok([exprs |-> rewritten.value,
                 schema |-> expressions_to_schema(rewritten.value, sch, "Other").value])

\* LogicalPlanBuilder::cache
cache(self) == Ok([kind |-> "Cache", input |-> self])

\* project / project_local that wrap the plan whatever the list
project_as_always(self, exprs, node) ==
    LET prepared == prepare_projection(exprs, schema(self))
    IN  IF prepared.panic THEN Panic
        ELSE Ok([kind |-> node, expr |-> prepared.value.exprs, input |-> self,
                 schema |-> prepared.value.schema])

\* LogicalPlanBuilder::project (node Projection) and project_local (node
\* LocalProjection): the two bodies differ in the node only
project_as(self, exprs, node) ==
    LET prepared == prepare_projection(exprs, schema(self))
    IN  IF prepared.panic THEN Panic
        ELSE IF prepared.value.exprs # << >>
        THEN Ok([kind |-> node, expr |-> prepared.value.exprs, input |-> self,
                 schema |-> prepared.value.schema])
        ELSE Ok(self)

project(self, exprs) == project_as(self, exprs, "Projection")

project_local(self, exprs) == project_as(self, exprs, "LocalProjection")

\* LogicalPlanBuilder::fill_none
fill_none(self, fill_value) ==
    project_local(self,
        [c \in DOMAIN schema(self) |->
            alias(Ternary(IsNull(col(schema(self)[c].name)), fill_value,
                          col(schema(self)[c].name)),
                  schema(self)[c].name)])

\* with_columns, the loop over the added expressions: the new fields
RECURSIVE with_columns_loop(_, _, _)
with_columns_loop(exprs, sch, new_fields) ==
    IF exprs = << >> THEN Ok(new_fields)
    ELSE LET field == to_field(Head(exprs), sch, "Other")
         IN  IF field.panic THEN Panic
             ELSE IF index_of(sch, field.value.name) # 0
             THEN with_columns_loop(Tail(exprs), sch,
                      [new_fields EXCEPT ![index_of(sch, field.value.name)] = field.value])
             ELSE with_columns_loop(Tail(exprs), sch, Append(new_fields, field.value))

\* LogicalPlanBuilder::with_columns
with_columns(self, exprs) ==
    LET new_fields == with_columns_loop(exprs, schema(self), schema(self))
    IN  IF new_fields.panic THEN Panic
        ELSE Ok([kind |-> "HStack", input |-> self, exprs |-> exprs,
                 schema |-> new_fields.value])

\* utils::combine_predicates_expr: the predicates folded with And
RECURSIVE combine_predicates_expr(_, _)
combine_predicates_expr(single_pred, it) ==
    IF it = << >> THEN single_pred
    ELSE combine_predicates_expr(
             IF single_pred = None THEN Some(Head(it))
             ELSE Some(BinaryExpr(single_pred[1], "And", Head(it))),
             Tail(it))

\* LogicalPlanBuilder::filter
filter(self, predicate) ==
    IF has_expr(predicate, Wildcard)
    THEN LET it == [c \in DOMAIN schema(self) |->
                       replace_wildcard_with_column(predicate, schema(self)[c].name)]
             combined == combine_predicates_expr(None, it)
         IN  IF combined = None THEN Panic
             ELSE Ok([kind |-> "Selection", predicate |-> combined[1], input |-> self])
    ELSE Ok([kind |-> "Selection", predicate |-> predicate, input |-> self])

\* LogicalPlanBuilder::groupby
groupby(self, keys, aggs, apply) ==
    LET current_schema == schema(self)
        rewritten == rewrite_projections(aggs, current_schema)
    IN  IF rewritten.panic THEN Panic
        ELSE LET schema1 == expressions_to_schema(keys, current_schema, "Other")
                 schema2 == expressions_to_schema(rewritten.value, current_schema,
                                                  "Aggregation")
             IN  IF schema1.panic \/ schema2.panic THEN Panic
                 ELSE IF try_merge(<< >>, schema1.value \o schema2.value).panic THEN Panic
                 ELSE Ok([kind |-> "Aggregate", input |-> self, keys |-> keys,
                          aggs |-> rewritten.value,
                          schema |-> try_merge(<< >>, schema1.value \o schema2.value).value,
                          apply |-> apply])

\* LogicalPlanBuilder::sort
sort(self, by_column, reverse) ==
    Ok([kind |-> "Sort", input |-> self, by_column |-> by_column, reverse |-> reverse])

\* LogicalPlanBuilder::explode
explode(self, columns) == Ok([kind |-> "Explode", input |-> self, columns |-> columns])

\* det_melt_schema that takes the type of the last entry of value_vars
det_melt_schema_last(value_vars, input_schema) ==
    IF value_vars = << >> THEN Panic
    ELSE IF index_of(input_schema, value_vars[Len(value_vars)]) = 0 THEN Panic
    ELSE Ok(SelectSeq(input_schema, LAMBDA f : f.name \notin Range(value_vars))
            \o <<Field("variable", "Utf8"),
                 Field("value",
                       input_schema[index_of(input_schema, value_vars[Len(value_vars)])].dtype)>>)

\* det_melt_schema: value_vars[0] panics on an empty list, and the expect
\* on a first entry that names no field
det_melt_schema(value_vars, input_schema) ==
    IF value_vars = << >> THEN Panic
    ELSE IF index_of(input_schema, value_vars[1]) = 0 THEN Panic
    ELSE Ok(SelectSeq(input_schema, LAMBDA f : f.name \notin Range(value_vars))
            \o <<Field("variable", "Utf8"),
                 Field("value", input_schema[index_of(input_schema, value_vars[1])].dtype)>>)

\* LogicalPlanBuilder::melt
melt(self, id_vars, value_vars) ==
    LET sch == det_melt_schema(value_vars, schema(self))
    IN  IF sch.panic THEN Panic
        ELSE Ok([kind |-> "Melt", input |-> self, id_vars |-> id_vars,
                 value_vars |-> value_vars, schema |-> sch.value])

\* LogicalPlanBuilder::drop_duplicates
drop_duplicates(self, maintain_order, subset) ==
    Ok([kind |-> "Distinct", input |-> self, maintain_order |-> maintain_order,
        subset |-> subset])

\* LogicalPlanBuilder::slice
slice(self, offset, len) ==
    Ok([kind |-> "Slice", input |-> self, offset |-> offset, len |-> len])

\* LogicalPlanBuilder::map; sch is the optional schema given to it
map(self, function, optimizations, sch) ==
    Ok([kind |-> "Udf", input |-> self, function |-> function,
        predicate_pd |-> optimizations.predicate_pushdown,
        projection_pd |-> optimizations.projection_pushdown,
        schema |-> sch])

(***************************************************************************)
(* The DataFrame join as a state machine: DataFrame::inner_join /          *)
(* left_join / outer_join on one key column, followed by the construction  *)
(* of the logical plan of the same join. The key columns are Boolean, so   *)
(* the pair stream comes from the single-threaded kernels.                 *)
(***************************************************************************)
ColNames == {"k", "x", "x_right"}

\* column-name lists of a table: pairwise distinct names
NameLists ==
    {ns \in UNION {[1..m -> ColNames] : m \in 1..MaxCols} :
        \A c, d \in DOMAIN ns : c # d => ns[c] # ns[d]}

\* a table with the given column names whose column `key` holds keyvals;
\* the other columns hold a distinct non-null value in every cell
MkFrame(names, key, keyvals, side, dt) ==
    [c \in DOMAIN names |->
        IF names[c] = key
        THEN Series(names[c], "Boolean", keyvals)
        ELSE Series(names[c], dt,
                    [r \in DOMAIN keyvals |-> Some(100 * side + 10 * c + r)])]

\* inputs with few name lists and every pair of key columns
GatherInputs ==
    {[ln |-> n.ln, lk |-> "k", rn |-> n.rn, rk |-> "k", lv |-> lv, rv |-> rv] :
        n \in {[ln |-> <<"k", "x">>, rn |-> <<"k", "x_right">>],
               [ln |-> <<"x", "k">>, rn |-> <<"x", "k">>],
               [ln |-> <<"x", "k", "x_right">>, rn |-> <<"k">>]},
        lv \in KeyColumns, rv \in KeyColumns}

SchemaKeyData ==
    {[lv |-> <<Some(1), Some(2)>>, rv |-> <<Some(2)>>],
     [lv |-> <<Some(1)>>, rv |-> <<Some(2), Some(1)>>]}

\* inputs with every pair of name lists and key names, and few key columns
SchemaInputs ==
    {[ln |-> ln, lk |-> ln[lc], rn |-> rn, rk |-> rn[rc], lv |-> d.lv, rv |-> d.rv] :
        <<ln, lc, rn, rc, d>> \in
            {q \in NameLists \X (1..MaxCols) \X NameLists \X (1..MaxCols) \X SchemaKeyData :
                q[2] <= Len(q[1]) /\ q[4] <= Len(q[3])}}

InitFrame ==
    \E inp \in GatherInputs \cup SchemaInputs :
        /\ df_left = MkFrame(inp.ln, inp.lk, inp.lv, 1, "Float64")
        /\ df_right = MkFrame(inp.rn, inp.rk, inp.rv, 2, "Utf8")
        /\ left_on = inp.lk
        /\ right_on = inp.rk
        /\ left = inp.lv
        /\ right = inp.rv
        /\ how \in JoinTypes
        /\ dtype = "Boolean"
        /\ n_threads = 1
        /\ seed = 0
        /\ lens_a = << >>
        /\ pc = "join"
        /\ hash_tbls = << >>
        /\ pos = << >>
        /\ results = << >>
        /\ iter_left = {}
        /\ join_tuples = << >>
        /\ taken = {}
        /\ part_left = << >>
        /\ part_right = << >>
        /\ joined = << >>
        /\ plan = None
        /\ env = None /\ cpus = 1 /\ n_keys = 1 /\ outcome = "none"
        /\ prev = None /\ call = None /\ n_calls = 0
        /\ hash = 0 /\ n_tables = 1 /\ tbl_idx = << >> /\ joined_hack = << >>

frame_inputs == <<left, right, how, dtype, n_threads, seed, lens_a, hash_tbls,
                  pos, results, iter_left, df_left, df_right, left_on, right_on,
                  env_vars, builder_vars, shard_vars, joined_hack>>

\* s_left.hash_join_inner(s_right) / hash_join_left / hash_join_outer
HashJoinCall ==
    /\ pc = "join"
    /\ LET s_left == column(df_left, left_on)
           s_right == column(df_right, right_on)
       IN  \/ /\ how = "Inner"
              /\ join_tuples' = hash_join_inner(s_left.values, s_right.values)
           \/ /\ how = "Left"
              /\ join_tuples' = hash_join_left(s_left.values, s_right.values)
           \/ /\ how = "Outer"
              /\ LET o == det_hash_prone_order(s_left.values, s_right.values)
                 IN  \E order \in Perms(outer_survivors(o.a, o.b, o.swap)) :
                        join_tuples' =
                            hash_join_outer(s_left.values, s_right.values, order)
    /\ pc' = "take"
    /\ UNCHANGED <<frame_inputs, taken, part_left, part_right, joined, plan>>

AfterTake(done) ==
    IF done # {"left", "right"} THEN "take"
    ELSE IF how = "Outer" THEN "zip" ELSE "finish"

\* first closure of POOL.join: the gathered left part
TakeLeft ==
    /\ pc = "take"
    /\ "left" \notin taken
    /\ part_left' =
          IF how = "Outer"
          THEN take_opt_iter_unchecked(drop(df_left, left_on),
                   [r \in DOMAIN join_tuples |-> join_tuples[r][1]])
          ELSE create_left_df(df_left, join_tuples)
    /\ taken' = taken \cup {"left"}
    /\ pc' = AfterTake(taken')
    /\ UNCHANGED <<frame_inputs, join_tuples, part_right, joined, plan>>

\* second closure of POOL.join: the gathered right part without its key
TakeRight ==
    /\ pc = "take"
    /\ "right" \notin taken
    /\ part_right' =
          IF how = "Inner"
          THEN take_iter_unchecked(drop(df_right, right_on),
                   [r \in DOMAIN join_tuples |-> join_tuples[r][2]])
          ELSE take_opt_iter_unchecked(drop(df_right, right_on),
                   [r \in DOMAIN join_tuples |-> join_tuples[r][2]])
    /\ taken' = taken \cup {"right"}
    /\ pc' = AfterTake(taken')
    /\ UNCHANGED <<frame_inputs, join_tuples, part_left, joined, plan>>

\* outer join: the key column is rebuilt and stacked onto the left part
Zip ==
    /\ pc = "zip"
    /\ \E payload \in 1..NKeys :
          LET s == zip_outer_join_column(column(df_left, left_on),
                       column(df_right, right_on), join_tuples, payload)
          IN  part_left' = hstack_mut(part_left, <<rename_series(s, left_on)>>)
    /\ pc' = "finish"
    /\ UNCHANGED <<frame_inputs, join_tuples, taken, part_right, joined, plan>>

FinishJoin ==
    /\ pc = "finish"
    /\ joined' = finish_join(part_left, part_right)
    /\ pc' = "joined"
    /\ UNCHANGED <<frame_inputs, join_tuples, taken, part_left, part_right, plan>>

\* the right-key expressions a plan can be given for this join: the key
\* column, an alias of it, or the key column and a second column
RightOn ==
    {<<col(right_on)>>}
    \cup {<<alias(col(right_on), nm)>> : nm \in ColNames}
    \cup {<<col(right_on), col(nm)>> :
            nm \in {df_right[c].name : c \in DOMAIN df_right} \ {right_on}}

\* LogicalPlanBuilder::from_existing_df(left).join(from_existing_df(right), ..)
PlanJoin ==
    /\ pc = "joined"
    /\ plan = None
    /\ \E r_on \in RightOn :
          plan' = plan_join(from_existing_df(df_left), from_existing_df(df_right),
                            how, [e \in DOMAIN r_on |-> col(left_on)], r_on)
    /\ UNCHANGED <<kernel_vars, df_left, df_right, left_on, right_on, taken,
                   part_left, part_right, joined, env_vars, builder_vars,
                   shard_vars, joined_hack>>

NextFrame ==
    \/ HashJoinCall
    \/ TakeLeft
    \/ TakeRight
    \/ Zip
    \/ FinishJoin
    \/ PlanJoin

SpecFrame == InitFrame /\ [][NextFrame]_vars

(***************************************************************************)
(* The thread cap and the dispatch of DataFrame::join on the number and    *)
(* the type of the key columns. The environment variable is a sequence of  *)
(* characters, or None when it is unset.                                   *)
(***************************************************************************)
UsizeMax == 2 ^ UsizeBits - 1

Digits == {"0", "2", "9"}
Chars == Digits \cup {"+", "-"}
Texts == UNION {[1..m -> Chars] : m \in 0..MaxText}
EnvValues == {None} \cup {Some(t) : t \in Texts}

\* char::to_digit(10)
to_digit(c) == CASE c = "0" -> 0 [] c = "2" -> 2 [] c = "9" -> 9

\* the digit loop of usize::from_str: None on a character that is no digit
\* and on overflow (checked_mul, checked_add)
RECURSIVE parse_digits(_, _)
parse_digits(digits, result) ==
    IF digits = << >> THEN Some(result)
    ELSE IF Head(digits) \notin Digits THEN None
    ELSE IF result * 10 + to_digit(Head(digits)) > UsizeMax THEN None
    ELSE parse_digits(Tail(digits), result * 10 + to_digit(Head(digits)))

\* str::parse::<usize>: Some(v), or None for Err(ParseIntError); a leading
\* "+" is accepted, a "-" is not (the type is unsigned)
parse_usize(text) ==
    IF text = << >> THEN None
    ELSE IF text = <<"+">> \/ text = <<"-">> THEN None
    ELSE IF Head(text) = "+" THEN parse_digits(Tail(text), 0)
    ELSE parse_digits(text, 0)

Min(x, y) == IF x <= y THEN x ELSE y

\* n_join_threads without the cap
n_join_threads_nocap(var, num_cpus) == [panic |-> FALSE, value |-> num_cpus]

\* n_join_threads: var is the value of POLARS_MAX_THREADS
n_join_threads(var, num_cpus) ==
    IF var = None THEN [panic |-> FALSE, value |-> Min(num_cpus, UsizeMax)]
    ELSE IF parse_usize(var[1]) = None THEN [panic |-> TRUE, value |-> 0]
    ELSE [panic |-> FALSE, value |-> Min(num_cpus, parse_usize(var[1])[1])]

AllDTypes == {"Int32", "Utf8", "Boolean", "Float64", "Categorical", "List"}

\* key types whose inner and left joins run the threaded kernels
SplitTypes == {"Int32", "Utf8", "Float64", "Categorical"}

\* whether the call reads the thread cap: single-key inner and left joins
\* of the types that split their inputs
ReadsCap(h, dt, k) == k = 1 /\ h \in {"Inner", "Left"} /\ dt \in SplitTypes

\* how a join call ends: "ok", or the panic that aborts it
\*   "expect"        .expect("integer") in n_join_threads
\*   "no_threads"    a thread count of 0: nothing to split into
\*   "unimplemented" a default method of HashJoin or ZipOuterJoinColumn
\*   "todo"          the `_ => todo!()` arm of DataFrame::join
join_outcome(h, dt, k, var, num_cpus) ==
    IF k # 1
    THEN IF k \in 2..6 THEN "ok" ELSE "todo"
    ELSE IF dt = "List" THEN "unimplemented"
    ELSE IF ReadsCap(h, dt, k)
    THEN LET n == n_join_threads(var, num_cpus)
         IN  IF n.panic THEN "expect"
             ELSE IF n.value = 0 THEN "no_threads"
             ELSE "ok"
    ELSE IF h = "Outer" /\ dt \in {"Float64", "Categorical"} THEN "unimplemented"
    ELSE "ok"

InitDispatch ==
    /\ env \in EnvValues
    /\ cpus \in 1..MaxCpus
    /\ n_keys = 1
    /\ outcome = "none"
    /\ how = "Inner"
    /\ dtype = "Int32"
    /\ n_threads = 1
    /\ pc = "idle"
    /\ n_calls = 0
    /\ hash = 0 /\ n_tables = 1 /\ tbl_idx = << >> /\ joined_hack = << >>
    /\ left = << >> /\ right = << >>
    /\ seed = 0 /\ lens_a = << >> /\ hash_tbls = << >>
    /\ pos = << >> /\ results = << >> /\ iter_left = {} /\ join_tuples = << >>
    /\ df_left = << >> /\ df_right = << >>
    /\ left_on = "" /\ right_on = ""
    /\ taken = {} /\ part_left = << >> /\ part_right = << >> /\ joined = << >>
    /\ plan = None /\ prev = None /\ call = None

dispatch_rest == <<left, right, seed, lens_a, hash_tbls, pos, results, iter_left,
                   join_tuples, df_left, df_right, left_on, right_on, taken,
                   part_left, part_right, joined, plan, prev, call, cpus,
                   shard_vars, joined_hack>>

\* std::env::set_var("POLARS_MAX_THREADS", text) between two joins
SetVar ==
    /\ pc = "idle"
    /\ \E text \in Texts : env' = Some(text) /\ env' # env
    /\ UNCHANGED <<dispatch_rest, how, dtype, n_threads, pc, n_keys, outcome, n_calls>>

\* std::env::remove_var("POLARS_MAX_THREADS")
RemoveVar ==
    /\ pc = "idle"
    /\ env # None
    /\ env' = None
    /\ UNCHANGED <<dispatch_rest, how, dtype, n_threads, pc, n_keys, outcome, n_calls>>

\* DataFrame::join on one key column of any type
JoinSingle ==
    /\ pc = "idle"
    /\ n_calls < MaxJoinCalls
    /\ \E h \in JoinTypes, dt \in AllDTypes :
          /\ how' = h
          /\ dtype' = dt
          /\ n_keys' = 1
          /\ outcome' = join_outcome(h, dt, 1, env, cpus)
          /\ n_threads' =
                IF ReadsCap(h, dt, 1) /\ ~n_join_threads(env, cpus).panic
                THEN n_join_threads(env, cpus).value
                ELSE n_threads
    /\ pc' = "called"
    /\ n_calls' = n_calls + 1
    /\ UNCHANGED <<dispatch_rest, env>>

\* DataFrame::join on several key columns (integer or string keys)
JoinComposite ==
    /\ pc = "idle"
    /\ n_calls < MaxJoinCalls
    /\ \E h \in JoinTypes, dt \in {"Int32", "Utf8"}, k \in 2..MaxKeyCols :
          /\ how' = h
          /\ dtype' = dt
          /\ n_keys' = k
          /\ outcome' = join_outcome(h, dt, k, env, cpus)
    /\ pc' = "called"
    /\ n_calls' = n_calls + 1
    /\ UNCHANGED <<dispatch_rest, env, n_threads>>

\* the join returned to its caller; a panic ends the run
Return ==
    /\ pc = "called"
    /\ outcome = "ok"
    /\ pc' = "idle"
    /\ UNCHANGED <<dispatch_rest, env, how, dtype, n_threads, n_keys, outcome, n_calls>>

NextDispatch ==
    \/ SetVar
    \/ RemoveVar
    \/ JoinSingle
    \/ JoinComposite
    \/ Return

SpecDispatch == InitDispatch /\ [][NextDispatch]_vars

(***************************************************************************)
(* The plan builder as a state machine: builder methods are called on the  *)
(* plan of a scan. In state "call" one method is called with an argument   *)
(* from a large set; in state "build" up to MaxCalls methods are called    *)
(* in a row with arguments from a small set.                               *)
(***************************************************************************)
ScanNames == <<"a", "b", "c", "d">>
ScanTypes == <<"Int32", "Utf8", "Boolean", "Float64">>

\* the scanned tables: the first m columns, without rows
ScanFrames ==
    {[c \in 1..m |-> Series(ScanNames[c], ScanTypes[c], << >>)] : m \in 1..MaxFields}

SeqsUpTo(S, n) == UNION {[1..m -> S] : m \in 0..n}

\* expressions given to project, project_local and as groupby aggregations
ProjectionExprs ==
    {col("a"), col("b"), alias(col("a"), "b"), Literal("Int32"),
     Wildcard, Not(Wildcard), AggCount(Wildcard),
     BinaryExpr(col("a"), "Plus", col("b")),
     Ternary(IsNull(Wildcard), Literal("Int32"), Wildcard),
     Except(col("a")), Except(col("b")), Except(Literal("Int32"))}

\* expressions given to with_columns
ColumnExprs ==
    {col("a"), col("q"), alias(Literal("Int32"), "z"), alias(col("a"), "z"),
     alias(Literal("Boolean"), "a"), alias(Not(col("a")), "b")}

\* predicates given to filter
Predicates ==
    {col("c"), IsNull(col("a")), IsNull(Wildcard), Not(IsNull(Wildcard)),
     BinaryExpr(Wildcard, "Eq", Literal("Int32")),
     BinaryExpr(IsNull(Wildcard), "And", Not(Wildcard)),
     Ternary(IsNull(Wildcard), Wildcard, Literal("Boolean")),
     Ternary(col("c"), Wildcard, Literal("Boolean"))}

ProjectArgs ==
    IF pc = "call" THEN SeqsUpTo(ProjectionExprs, MaxExprs)
    ELSE {<< >>, <<col("a")>>, <<Wildcard>>, <<Except(col("a"))>>,
          <<Wildcard, Except(col("a"))>>}

WithColumnsArgs ==
    IF pc = "call" THEN SeqsUpTo(ColumnExprs, MaxExprs)
    ELSE {<< >>, <<alias(Literal("Int32"), "z")>>, <<alias(Literal("Boolean"), "a")>>}

FilterArgs == IF pc = "call" THEN Predicates ELSE {IsNull(col("a")), IsNull(Wildcard)}

MeltArgs ==
    IF pc = "call"
    THEN {<< >>, <<"a">>} \X SeqsUpTo({"a", "b", "q"}, 2)
    ELSE {<< <<"a">>, <<"b">> >>, << << >>, <<"a">> >>}

InitBuilder ==
    /\ \E df \in ScanFrames : plan = from_existing_df(df)
    /\ pc \in {"call", "build"}
    /\ prev = None
    /\ call = None
    /\ n_calls = 0
    /\ hash = 0 /\ n_tables = 1 /\ tbl_idx = << >> /\ joined_hack = << >>
    /\ outcome = "none"
    /\ env = None /\ cpus = 1 /\ n_keys = 1
    /\ how = "Inner" /\ dtype = "Int32" /\ n_threads = 1
    /\ left = << >> /\ right = << >>
    /\ seed = 0 /\ lens_a = << >> /\ hash_tbls = << >>
    /\ pos = << >> /\ results = << >> /\ iter_left = {} /\ join_tuples = << >>
    /\ df_left = << >> /\ df_right = << >>
    /\ left_on = "" /\ right_on = ""
    /\ taken = {} /\ part_left = << >> /\ part_right = << >> /\ joined = << >>

builder_rest == <<left, right, how, dtype, n_threads, seed, lens_a, hash_tbls,
                  pos, results, iter_left, join_tuples, df_left, df_right,
                  left_on, right_on, taken, part_left, part_right, joined,
                  env, cpus, n_keys, shard_vars, joined_hack>>

\* a builder method is called on the plan; result is what the method yields
BuilderCall(method, args, result) ==
    /\ pc \in {"call", "build"}
    /\ n_calls < MaxCalls
    /\ prev' = plan
    /\ call' = [method |-> method, args |-> args]
    /\ n_calls' = n_calls + 1
    /\ IF result.panic
       THEN plan' = plan /\ outcome' = "panic" /\ pc' = "aborted"
       ELSE /\ plan' = result.value
            /\ outcome' = "ok"
            /\ pc' = IF pc = "call" THEN "returned" ELSE "build"
    /\ UNCHANGED builder_rest

Cache == BuilderCall("cache", << >>, cache(plan))

Project == \E exprs \in ProjectArgs : BuilderCall("project", exprs, project(plan, exprs))

ProjectLocal ==
    \E exprs \in ProjectArgs :
        BuilderCall("project_local", exprs, project_local(plan, exprs))

FillNone ==
    \E fill_value \in {Literal("Int32")} :
        BuilderCall("fill_none", fill_value, fill_none(plan, fill_value))

WithColumns ==
    \E exprs \in WithColumnsArgs :
        BuilderCall("with_columns", exprs, with_columns(plan, exprs))

Filter ==
    \E predicate \in FilterArgs : BuilderCall("filter", predicate, filter(plan, predicate))

Groupby ==
    \E aggs \in ProjectArgs :
        BuilderCall("groupby", aggs, groupby(plan, <<col("a")>>, aggs, None))

Sort == BuilderCall("sort", <<"a">>, sort(plan, "a", FALSE))

Explode == BuilderCall("explode", <<"a">>, explode(plan, <<"a">>))

Melt ==
    \E a \in MeltArgs : BuilderCall("melt", a, melt(plan, a[1], a[2]))

DropDuplicates ==
    BuilderCall("drop_duplicates", << >>, drop_duplicates(plan, TRUE, None))

Slice == BuilderCall("slice", << >>, slice(plan, 0, 1))

Join ==
    \E df \in ScanFrames, h \in JoinTypes :
        BuilderCall("join", h,
            Ok(plan_join(plan, from_existing_df(df), h, <<col("a")>>, <<col("a")>>)))

Map ==
    \E sch \in {None, Some(<<Field("u", "Utf8")>>)} :
        BuilderCall("map", sch,
            map(plan, "udf",
                [predicate_pushdown |-> TRUE, projection_pushdown |-> TRUE], sch))

NextBuilder ==
    \/ Cache
    \/ Project
    \/ ProjectLocal
    \/ FillNone
    \/ WithColumns
    \/ Filter
    \/ Groupby
    \/ Sort
    \/ Explode
    \/ Melt
    \/ DropDuplicates
    \/ Slice
    \/ Join
    \/ Map

SpecBuilder == InitBuilder /\ [][NextBuilder]_vars

(***************************************************************************)
(* DataFrame::join on several key columns, and the single-key joins as     *)
(* functions of the tables. `order` is the order in which hash_tbl.iter()  *)
(* yields the surviving buckets of an outer join.                          *)
(***************************************************************************)
\* DataFrame::inner_join
inner_join(self, other, l_on, r_on) ==
    LET s_left == column(self, l_on)
        s_right == column(other, r_on)
        tuples == hash_join_inner(s_left.values, s_right.values)
    IN  finish_join(create_left_df(self, tuples),
                    take_iter_unchecked(drop(other, s_right.name),
                        [r \in DOMAIN tuples |-> tuples[r][2]]))

\* DataFrame::left_join
left_join(self, other, l_on, r_on) ==
    LET s_left == column(self, l_on)
        s_right == column(other, r_on)
        opt_join_tuples == hash_join_left(s_left.values, s_right.values)
    IN  finish_join(create_left_df(self, opt_join_tuples),
                    take_opt_iter_unchecked(drop(other, s_right.name),
                        [r \in DOMAIN opt_join_tuples |-> opt_join_tuples[r][2]]))

\* DataFrame::outer_join
outer_join(self, other, l_on, r_on, order, payload) ==
    LET s_left == column(self, l_on)
        s_right == column(other, r_on)
        opt_join_tuples == hash_join_outer(s_left.values, s_right.values, order)
        taken_left == take_opt_iter_unchecked(drop(self, s_left.name),
                          [r \in DOMAIN opt_join_tuples |-> opt_join_tuples[r][1]])
        taken_right == take_opt_iter_unchecked(drop(other, s_right.name),
                           [r \in DOMAIN opt_join_tuples |-> opt_join_tuples[r][2]])
        s == zip_outer_join_column(s_left, s_right, opt_join_tuples, payload)
    IN  finish_join(hstack_mut(taken_left, <<rename_series(s, s_left.name)>>),
                    taken_right)

\* static_zip!: the rows of the selected key columns as tuples
static_zip(selected) ==
    [r \in 1..Len(selected[1].values) |->
        [n \in DOMAIN selected |-> selected[n].values[r]]]

\* Iterator::size_hint().0 of the zipped key columns: their number of rows
size_hint(iter) == Len(iter)

\* det_hash_prone_order2! that always hashes the left table
det_hash_prone_order2_left(self, other) ==
    [a |-> other, b |-> self, swap |-> TRUE]

\* det_hash_prone_order2!
det_hash_prone_order2(self, other) ==
    LET left_first == size_hint(self) > size_hint(other)
    IN  IF left_first
        THEN [a |-> self, b |-> other, swap |-> ~left_first]
        ELSE [a |-> other, b |-> self, swap |-> ~left_first]

\* remove_selected: the table without the selected columns
RECURSIVE remove_selected(_, _)
remove_selected(df, selected) ==
    IF selected = << >> THEN df
    ELSE remove_selected(drop(df, Head(selected).name), Tail(selected))

\* DataFrame::join: Ok(table), or Panic at todo!()
join(self, other, l_on, r_on, join_how, order, payload) ==
    LET \* select_series: the named columns, in the order of the names
        selected_left == [n \in DOMAIN l_on |-> column(self, l_on[n])]
        selected_right == [n \in DOMAIN r_on |-> column(other, r_on[n])]
        \* the loop that rebuilds and stacks the key columns of an outer join
        RECURSIVE zip_selected(_, _, _, _)
        zip_selected(df, sel_left, sel_right, opt_join_tuples) ==
            IF sel_left = << >> THEN df
            ELSE LET s == zip_outer_join_column(Head(sel_left), Head(sel_right),
                                                opt_join_tuples, payload)
                 IN  zip_selected(
                         hstack_mut(df, <<rename_series(s, Head(sel_left).name)>>),
                         Tail(sel_left), Tail(sel_right), opt_join_tuples)
    IN  IF Len(selected_left) = 1
        THEN Ok(IF join_how = "Inner"
                THEN inner_join(self, other, selected_left[1].name, selected_right[1].name)
                ELSE IF join_how = "Left"
                THEN left_join(self, other, selected_left[1].name, selected_right[1].name)
                ELSE outer_join(self, other, selected_left[1].name,
                                selected_right[1].name, order, payload))
        ELSE IF Len(selected_left) \notin 2..6 THEN Panic
        ELSE LET a == static_zip(selected_left)
                 b == static_zip(selected_right)
                 o == det_hash_prone_order2(a, b)
             IN  IF join_how = "Inner"
                 THEN LET join_tuples_ == hash_join_tuples_inner(o.a, o.b, o.swap)
                      IN  Ok(finish_join(
                                 create_left_df(self, join_tuples_),
                                 take_iter_unchecked(remove_selected(other, selected_right),
                                     [r \in DOMAIN join_tuples_ |-> join_tuples_[r][2]])))
                 ELSE IF join_how = "Left"
                 THEN LET join_tuples_ == hash_join_tuples_left(a, b)
                      IN  Ok(finish_join(
                                 create_left_df(self, join_tuples_),
                                 take_opt_iter_unchecked(
                                     remove_selected(other, selected_right),
                                     [r \in DOMAIN join_tuples_ |-> join_tuples_[r][2]])))
                 ELSE LET opt_join_tuples == hash_join_tuples_outer(o.a, o.b, o.swap, order)
                          taken_left ==
                              take_opt_iter_unchecked(remove_selected(self, selected_left),
                                  [r \in DOMAIN opt_join_tuples |-> opt_join_tuples[r][1]])
                          taken_right ==
                              take_opt_iter_unchecked(remove_selected(other, selected_right),
                                  [r \in DOMAIN opt_join_tuples |-> opt_join_tuples[r][2]])
                      IN  Ok(finish_join(
                                 zip_selected(taken_left, selected_left, selected_right,
                                              opt_join_tuples),
                                 taken_right))

\* a table of the test made of the key pairs of its rows: key columns a, b
\* (foo, bar) and a column c (ham) that numbers the rows
MkTable(names, pairs, side) ==
    <<Series(names[1], "Int32", [r \in DOMAIN pairs |-> Some(pairs[r][1])]),
      Series(names[2], "Utf8", [r \in DOMAIN pairs |-> Some(pairs[r][2])]),
      Series(names[3], "Utf8", [r \in DOMAIN pairs |-> Some(100 * side + r)])>>

\* the "dummy" column of the test: the two keys of a row written one after
\* the other
dummy(df, n1, n2) ==
    Series("dummy", "Utf8",
        [r \in 1..height(df) |->
            Some(10 * column(df, n1).values[r][1] + column(df, n2).values[r][1])])

InitMultiple ==
    /\ LET KeyPairs == {<<1, 1>>, <<1, 2>>, <<2, 1>>}
           PairLists == UNION {[1..m -> KeyPairs] : m \in 0..MaxRows}
       IN  \E pl \in PairLists, pr \in PairLists :
              /\ df_left = MkTable(<<"a", "b", "c">>, pl, 1)
              /\ df_right = MkTable(<<"foo", "bar", "ham">>, pr, 2)
    /\ how \in JoinTypes
    /\ pc = "multi"
    /\ joined = None
    /\ joined_hack = None
    /\ hash = 0 /\ n_tables = 1 /\ tbl_idx = None
    /\ env = None /\ cpus = 1 /\ n_keys = 2 /\ outcome = "none"
    /\ plan = None /\ prev = None /\ call = None /\ n_calls = 0
    /\ dtype = "Utf8" /\ n_threads = 1
    /\ left = << >> /\ right = << >>
    /\ seed = 0 /\ lens_a = << >> /\ hash_tbls = << >>
    /\ pos = << >> /\ results = << >> /\ iter_left = {} /\ join_tuples = << >>
    /\ left_on = "" /\ right_on = ""
    /\ taken = {} /\ part_left = << >> /\ part_right = << >>

multiple_rest == <<left, right, how, dtype, n_threads, seed, lens_a, hash_tbls,
                   pos, results, iter_left, join_tuples, df_left, df_right,
                   left_on, right_on, taken, part_left, part_right, plan,
                   env_vars, builder_vars, shard_vars, pc>>

\* df_a.join(&df_b, &["a", "b"], &["foo", "bar"], how)
JoinMultiple ==
    /\ pc = "multi"
    /\ joined = None
    /\ LET o == det_hash_prone_order2(
                    static_zip(<<column(df_left, "a"), column(df_left, "b")>>),
                    static_zip(<<column(df_right, "foo"), column(df_right, "bar")>>))
       IN  \E order \in Perms(outer_survivors(o.a, o.b, o.swap)) :
              joined' = join(df_left, df_right, <<"a", "b">>, <<"foo", "bar">>,
                             how, order, 0).value
    /\ UNCHANGED <<multiple_rest, joined_hack>>

\* the join of the test on the dummy column that with_column adds to both
\* tables
JoinHack ==
    /\ pc = "multi"
    /\ joined_hack = None
    /\ LET df_a == hstack_mut(df_left, <<dummy(df_left, "a", "b")>>)
           df_b == hstack_mut(df_right, <<dummy(df_right, "foo", "bar")>>)
           o == det_hash_prone_order(column(df_a, "dummy").values,
                                     column(df_b, "dummy").values)
       IN  \E order \in Perms(outer_survivors(o.a, o.b, o.swap)) :
              joined_hack' = join(df_a, df_b, <<"dummy">>, <<"dummy">>,
                                  how, order, 0).value
    /\ UNCHANGED <<multiple_rest, joined>>

NextMultiple ==
    \/ JoinMultiple
    \/ JoinHack

SpecMultiple == InitMultiple /\ [][NextMultiple]_vars

(***************************************************************************)
(* get_hash_tbl on its own: one call for a hash and a number of tables.    *)
(* `h + i` is u64 arithmetic: a build without overflow checks wraps it, a  *)
(* build with overflow checks panics when it does not fit the word.        *)
(***************************************************************************)
InitShard ==
    /\ hash \in 0..(HashSpace - 1)
    /\ n_tables \in 1..MaxTables
    /\ tbl_idx = None
    /\ pc = "select"
    /\ joined_hack = None
    /\ env = None /\ cpus = 1 /\ n_keys = 1 /\ outcome = "none"
    /\ plan = None /\ prev = None /\ call = None /\ n_calls = 0
    /\ how = "Inner" /\ dtype = "Int32" /\ n_threads = 1
    /\ left = << >> /\ right = << >>
    /\ seed = 0 /\ lens_a = << >> /\ hash_tbls = << >>
    /\ pos = << >> /\ results = << >> /\ iter_left = {} /\ join_tuples = << >>
    /\ df_left = << >> /\ df_right = << >>
    /\ left_on = "" /\ right_on = ""
    /\ taken = {} /\ part_left = << >> /\ part_right = << >> /\ joined = << >>

shard_rest == <<left, right, how, dtype, n_threads, seed, lens_a, hash_tbls,
                pos, results, iter_left, join_tuples, df_left, df_right,
                left_on, right_on, taken, part_left, part_right, joined, plan,
                env_vars, builder_vars, joined_hack, hash, n_tables>>

\* some h + i of the loop does not fit the hash word
Overflows(h, len) == \E i \in 0..(len - 1) : h + i >= HashSpace

\* get_hash_tbl in a build whose integer arithmetic wraps
GetHashTblWrapping ==
    /\ pc = "select"
    /\ tbl_idx' = Some(get_hash_tbl(hash, n_tables))
    /\ pc' = "selected"
    /\ UNCHANGED shard_rest

\* get_hash_tbl in a build with overflow checks: `h + i` panics
GetHashTblChecked ==
    /\ pc = "select"
    /\ IF Overflows(hash, n_tables)
       THEN tbl_idx' = tbl_idx /\ pc' = "aborted"
       ELSE tbl_idx' = Some(get_hash_tbl(hash, n_tables)) /\ pc' = "selected"
    /\ UNCHANGED shard_rest

NextShard ==
    \/ GetHashTblWrapping
    \/ GetHashTblChecked

SpecShard == InitShard /\ [][NextShard]_vars

(***************************************************************************)
(* Properties of the pair stream.                                          *)
(***************************************************************************)
LeftRows == 0..(Len(left) - 1)
RightRows == 0..(Len(right) - 1)

\* the rows of the other table with an equal key (null equals null)
RightMatches(i) == {j \in RightRows : right[j + 1] = left[i + 1]}
LeftMatches(j) == {i \in LeftRows : left[i + 1] = right[j + 1]}

\* the two coordinates of a pair as Option<u32>, whatever the join kind
PairL(t) == IF how = "Outer" THEN t[1] ELSE Some(t[1])
PairR(t) == IF how = "Inner" THEN Some(t[2]) ELSE t[2]

Done == pc = "done"

\* C1: inner join: the pair stream holds exactly the pairs (i, j) of rows
\* with equal keys, each once, the left index first; rows without a partner
\* yield no pair.
C1_InnerExact ==
    (Done /\ how = "Inner") =>
        /\ \A n \in DOMAIN join_tuples :
              /\ join_tuples[n][1] \in LeftRows
              /\ join_tuples[n][2] \in RightMatches(join_tuples[n][1])
        /\ \A i \in LeftRows : \A j \in RightMatches(i) :
              Count(join_tuples, <<i, j>>) = 1

\* an inner join that is done, with the left table hashed (swap), a null key
\* matched on both sides, a duplicate pairing and a row without a partner
C1_Witness ==
    /\ Done /\ how = "Inner" /\ Order.swap
    /\ None \in Range(left) /\ None \in Range(right)
    /\ \E j \in RightRows : LeftMatches(j) = {}
    /\ \E j \in RightRows : Cardinality(LeftMatches(j)) = 2
    /\ Len(join_tuples) >= 2

\* C2: left join: a left row without a match yields exactly the pair
\* (i, None); a left row with matches yields exactly one pair (i, Some(j))
\* per matching right row j and no (i, None); whichever table is longer.
C2_LeftExact ==
    (Done /\ how = "Left") =>
        /\ \A n \in DOMAIN join_tuples : join_tuples[n][1] \in LeftRows
        /\ \A i \in LeftRows :
              LET mine == {n \in DOMAIN join_tuples : join_tuples[n][1] = i}
              IN  /\ mine # {}
                  /\ IF RightMatches(i) = {}
                     THEN /\ Cardinality(mine) = 1
                          /\ Count(join_tuples, <<i, None>>) = 1
                     ELSE /\ Cardinality(mine) = Cardinality(RightMatches(i))
                          /\ \A j \in RightMatches(i) :
                                Count(join_tuples, <<i, Some(j)>>) = 1
                          /\ Count(join_tuples, <<i, None>>) = 0

\* a left join that is done, the left table not being the longer one, with
\* one left row unmatched and one matched twice
C2_Witness ==
    /\ Done /\ how = "Left"
    /\ Len(right) >= Len(left)
    /\ \E i \in LeftRows : RightMatches(i) = {}
    /\ \E i \in LeftRows : Cardinality(RightMatches(i)) = 2

\* C3: outer join: no pair has both indices absent; every left row occurs as
\* the left index of a pair and every right row as the right index of a pair.
C3_OuterCovers ==
    (Done /\ how = "Outer") =>
        /\ \A n \in DOMAIN join_tuples :
              join_tuples[n][1] # None \/ join_tuples[n][2] # None
        /\ \A i \in LeftRows :
              \E n \in DOMAIN join_tuples : join_tuples[n][1] = Some(i)
        /\ \A j \in RightRows :
              \E n \in DOMAIN join_tuples : join_tuples[n][2] = Some(j)

\* an outer join that is done, with the left table hashed, a key that occurs
\* twice in it, and a pair without a left index
C3_Witness ==
    /\ Done /\ how = "Outer" /\ Order.swap
    /\ \E n \in DOMAIN join_tuples : join_tuples[n][1] = None
    /\ \E j \in RightRows : Cardinality(LeftMatches(j)) = 2

\* the pairs with both indices present whose two rows have a null key
NullPairs ==
    {n \in DOMAIN join_tuples :
        /\ PairL(join_tuples[n]) # None
        /\ PairR(join_tuples[n]) # None
        /\ left[PairL(join_tuples[n])[1] + 1] = None
        /\ right[PairR(join_tuples[n])[1] + 1] = None}

\* C4: null equality: with m >= 1 null keys on the left and n >= 1 on the
\* right, every join kind emits exactly m * n pairs of two null-key rows.
C4_NullProduct ==
    Done =>
        LET m == Count(left, None)
            n == Count(right, None)
        IN  (m >= 1 /\ n >= 1) => Cardinality(NullPairs) = m * n

\* the same count for the inner and the left join only
C4_NullProductInnerLeft ==
    (Done /\ how \in {"Inner", "Left"}) =>
        LET m == Count(left, None)
            n == Count(right, None)
        IN  (m >= 1 /\ n >= 1) => Cardinality(NullPairs) = m * n

\* the probe-side index of a pair of the threaded inner or left join
ProbeIdx(t) == IF how = "Inner" /\ Order.swap THEN t[2] ELSE t[1]

\* C5: the threaded inner and left joins return, for every thread count,
\* every contiguous split and every schedule of the probe tasks, the pair
\* sequence of the single-threaded kernels; the rows probed by task p carry
\* the indices offset(p) .. offset(p) + len(p) - 1.
C5_PartitionDeterminism ==
    /\ (Done /\ Threaded) =>
          join_tuples =
             IF how = "Inner"
             THEN hash_join_tuples_inner(Order.a, Order.b, Order.swap)
             ELSE hash_join_tuples_left(left, right)
    /\ (Threaded /\ pc \in {"probe", "done"}) =>
          \A p \in DOMAIN results : \A n \in DOMAIN results[p] :
             LET off == SumSeq(SubSeq(lens_a, 1, p - 1))
             IN  /\ ProbeIdx(results[p][n]) >= off
                 /\ ProbeIdx(results[p][n]) < off + pos[p]

\* a threaded join that is done, split into several slices of which the first
\* is empty, the last probe task having emitted pairs
C5_Witness ==
    /\ Done /\ Threaded /\ n_threads = MaxThreads
    /\ lens_a[1] = 0
    /\ results[n_threads] # << >>
    /\ Len(join_tuples) >= 2

(***************************************************************************)
(* Properties of the joined table and of the plan schema.                  *)
(***************************************************************************)
Joined == pc = "joined"
Planned == plan # None

FieldNames(fields) == [c \in DOMAIN fields |-> fields[c].name]

Distinct(ns) == \A c, d \in DOMAIN ns : c # d => ns[c] # ns[d]

\* the value a gathered column holds for an optional row index
Gathered(s, opt_idx) == IF opt_idx = None THEN None ELSE s.values[opt_idx[1] + 1]

\* position in the join output of column c of the left table
LeftOutPos(c) ==
    IF how # "Outer" THEN c
    ELSE LET key == find_idx_by_name(df_left, left_on)
         IN  IF c = key THEN Len(df_left) ELSE IF c < key THEN c ELSE c - 1

RowsAndLengths ==
    /\ Len(joined) = Len(df_left) + Len(df_right) - 1
    /\ \A c \in DOMAIN joined : Len(joined[c].values) = Len(join_tuples)

RightGathered ==
    LET dr == drop(df_right, right_on)
    IN  \A c \in DOMAIN dr : \A r \in DOMAIN join_tuples :
            joined[Len(df_left) + c].values[r] = Gathered(dr[c], PairR(join_tuples[r]))

C7_CollisionRename ==
    Joined =>
        LET ln == Names(part_left)
            rn == Names(drop(df_right, right_on))
        IN  Names(joined) =
                ln \o [c \in DOMAIN rn |->
                         IF rn[c] \in Range(ln) THEN rn[c] \o "_right" ELSE rn[c]]

\* C8: the inputs have pairwise distinct column names, and so have the
\* join output and the schema of the Join node.
C8_NameUniqueness ==
    /\ Joined => Distinct(Names(joined))
    /\ Planned => Distinct(FieldNames(schema(plan)))

\* C9: for one key column per side, the column names of the table returned
\* by the DataFrame join are the field names of the Join node's schema.
C9_SchemaAgreement ==
    (Joined /\ Planned /\ plan.right_on = <<col(right_on)>>) =>
        Names(joined) = FieldNames(schema(plan))

\* C10: the schema of a Join node is the left fields in order, then the
\* right fields in order without those named like the output of a right-key
\* expression, each renamed to name + "_right" with its data type kept when
\* a left field has its name; the join kind plays no part.
C10_JoinSchemaDerivation ==
    Planned =>
        LET lf == df_schema(df_left)
            rf == df_schema(df_right)
            keys == {output_name(plan.right_on[e]) : e \in DOMAIN plan.right_on}
            kept == SelectSeq(rf, LAMBDA f : f.name \notin keys)
        IN  schema(plan) =
                lf \o [c \in DOMAIN kept |->
                         IF kept[c].name \in Range(FieldNames(lf))
                         THEN Field(kept[c].name \o "_right", kept[c].dtype)
                         ELSE kept[c]]

C10_Witness ==
    /\ Planned
    /\ LET ln == Range(Names(df_left))
           keys == {output_name(plan.right_on[e]) : e \in DOMAIN plan.right_on}
       IN  \E c1, c2, c3 \in DOMAIN df_right :
              /\ df_right[c1].name \in keys
              /\ df_right[c2].name \notin keys /\ df_right[c2].name \in ln
              /\ df_right[c3].name \notin keys /\ df_right[c3].name \notin ln

(***************************************************************************)
(* Joins with an empty side.                                               *)
(***************************************************************************)
\* the pair stream holds exactly one pair per element of want, and no other
ExactlyOncePairs(want) ==
    /\ Len(join_tuples) = Cardinality(want)
    /\ \A w \in want : \E n \in DOMAIN join_tuples : join_tuples[n] = w

\* C20: with an empty left table the inner and left joins yield no pair and
\* the outer join one pair (absent, j) per right row; with an empty right
\* table the inner join yields no pair and the left and outer joins one pair
\* (i, absent) per left row; the kernel runs to its end for every thread count.
C20_EmptySide ==
    /\ (Done /\ Len(left) = 0) =>
          IF how = "Outer"
          THEN ExactlyOncePairs({<<None, Some(j)>> : j \in RightRows})
          ELSE join_tuples = << >>
    /\ (Done /\ Len(right) = 0) =>
          CASE how = "Inner" -> join_tuples = << >>
            [] how = "Left" -> ExactlyOncePairs({<<i, None>> : i \in LeftRows})
            [] how = "Outer" -> ExactlyOncePairs({<<Some(i), None>> : i \in LeftRows})
    /\ ((Len(left) = 0 \/ Len(right) = 0) /\ ~Done) => ENABLED Next

\* an outer join of an empty left table with a right table of two rows,
\* and a threaded join with more than one thread and an empty side
C20_Witness ==
    /\ Done
    /\ \/ how = "Outer" /\ Len(left) = 0 /\ Len(right) = 2
       \/ Threaded /\ n_threads > 1 /\ Len(right) = 0 /\ Len(left) = 2

(***************************************************************************)
(* Properties of the thread cap and of the join dispatch.                  *)
(***************************************************************************)
Called == pc = "called"

\* a non-empty string of decimal digits, and the number it writes
IsDecimal(text) == text # << >> /\ \A n \in DOMAIN text : text[n] \in Digits

RECURSIVE DecimalValue(_)
DecimalValue(text) ==
    IF text = << >> THEN 0
    ELSE 10 * DecimalValue(SubSeq(text, 1, Len(text) - 1)) + to_digit(text[Len(text)])

\* text that writes an unsigned integer: decimal digits, possibly after "+"
IsUnsigned(text) ==
    \/ IsDecimal(text)
    \/ text # << >> /\ Head(text) = "+" /\ IsDecimal(Tail(text))

UnsignedValue(text) ==
    IF Head(text) = "+" THEN DecimalValue(Tail(text)) ELSE DecimalValue(text)

\* a join call that splits its inputs
Splitting == Called /\ ReadsCap(how, dtype, n_keys)

\* C17 as stated: a join that splits its inputs uses min(cpu_count, v)
\* threads when the variable holds the decimal integer v and cpu_count when
\* it is unset, and aborts when the variable holds text that is no unsigned
\* integer; every call reads the variable as it is then.
C17_ThreadCap ==
    Splitting =>
        /\ env = None => (outcome # "expect" /\ n_threads = cpus)
        /\ (env # None /\ IsDecimal(env[1])) =>
              (outcome # "expect" /\ n_threads = Min(cpus, DecimalValue(env[1])))
        /\ (env # None /\ ~IsUnsigned(env[1])) => outcome = "expect"

\* C17 amended: as C17 for a decimal integer v that fits a machine word;
\* a decimal integer beyond the word aborts the join like unparsable text.
C17_ThreadCapAmended ==
    Splitting =>
        /\ env = None => (outcome # "expect" /\ n_threads = cpus)
        /\ (env # None /\ IsUnsigned(env[1]) /\ UnsignedValue(env[1]) <= UsizeMax) =>
              (outcome # "expect" /\ n_threads = Min(cpus, UnsignedValue(env[1])))
        /\ (env # None /\ (~IsUnsigned(env[1]) \/ UnsignedValue(env[1]) > UsizeMax)) =>
              outcome = "expect"

\* the second join in a row, capped below the cpu count by the variable
C17_Witness ==
    /\ Splitting
    /\ n_calls = 2
    /\ env = Some(<<"2">>)
    /\ cpus = 3
    /\ n_threads = 2

\* C18: a join on a key column of list type returns to its caller (with an
\* error value) and does not panic.
C18_UnsupportedTypeIsError ==
    (Called /\ n_keys = 1 /\ dtype = "List") =>
        outcome \notin {"expect", "no_threads", "unimplemented", "todo"}

\* C19: a join on k >= 2 key columns completes, for k >= 7 as for k in 2..6.
C19_CompositeKeysComplete ==
    (Called /\ n_keys >= 2) => outcome = "ok"

\* joins on 2 to 6 key columns do complete
C19_UpToSixComplete ==
    (Called /\ n_keys \in 2..6) => outcome = "ok"

(***************************************************************************)
(* Further properties of the pair stream and of the rebuilt key column.    *)
(***************************************************************************)
\* C23: outer join on a single key: entry r of the rebuilt key column is the
\* left key value at left_idx[r] when the left index is present and the
\* right key value at right_idx[r] otherwise; without nulls in the two key
\* columns it has no null; it carries the left key's name
C23_OuterKeyZip ==
    (how = "Outer" /\ pc \in {"finish", "joined"}) =>
        LET s == part_left[Len(part_left)]
            s_left == column(df_left, left_on)
            s_right == column(df_right, right_on)
        IN  /\ s.name = left_on
            /\ Len(s.values) = Len(join_tuples)
            /\ \A r \in DOMAIN join_tuples :
                  s.values[r] =
                     IF join_tuples[r][1] # None
                     THEN s_left.values[join_tuples[r][1][1] + 1]
                     ELSE s_right.values[join_tuples[r][2][1] + 1]
            /\ (None \notin Range(s_left.values) /\ None \notin Range(s_right.values))
                  => None \notin Range(s.values)

\* C24: the outer pair stream, as a multiset, is the inner-join pairs plus
\* one pair (i, absent) for exactly the left rows without a partner plus one
\* pair (absent, j) for exactly the right rows without a partner, also when
\* a key occurs more than once on the probe side
C24_OuterIsInnerPlusUnmatched ==
    (Done /\ how = "Outer") =>
        /\ \A i \in LeftRows : \A j \in RightRows :
              Count(join_tuples, <<Some(i), Some(j)>>) =
                 IF left[i + 1] = right[j + 1] THEN 1 ELSE 0
        /\ \A i \in LeftRows :
              Count(join_tuples, <<Some(i), None>>) =
                 IF RightMatches(i) = {} THEN 1 ELSE 0
        /\ \A j \in RightRows :
              Count(join_tuples, <<None, Some(j)>>) =
                 IF LeftMatches(j) = {} THEN 1 ELSE 0
        /\ Count(join_tuples, <<None, None>>) = 0

\* the (key, row index) entries of the hash tables
TableRows ==
    {q \in Cells \X (0..(Len(left) + Len(right))) :
        \E t \in DOMAIN hash_tbls :
            q[1] \in DOMAIN hash_tbls[t] /\ q[2] \in Range(hash_tbls[t][q[1]])}

RowsOf(column_values) ==
    {<<column_values[i + 1], i>> : i \in 0..(Len(column_values) - 1)}

\* the tables are built and no row is probed yet
JustBuilt == pc = "probe" /\ \A p \in DOMAIN pos : pos[p] = 0

\* C25: inner and outer joins hash the relation that is not the longer one,
\* the left one when the lengths are equal; swap is true exactly when the
\* left table is hashed, and every pair has the left index first; left
\* joins hash the right table whatever the lengths
C25_BuildSideAndSwap ==
    /\ (JustBuilt /\ how \in {"Inner", "Outer"}) =>
          /\ TableRows = RowsOf(IF Len(left) <= Len(right) THEN left ELSE right)
          /\ Order.swap <=> Len(left) <= Len(right)
          /\ Len(Order.b) <= Len(Order.a)
    /\ (JustBuilt /\ how = "Left") => TableRows = RowsOf(right)
    /\ Done =>
          \A n \in DOMAIN join_tuples :
             /\ PairL(join_tuples[n]) # None => PairL(join_tuples[n])[1] \in LeftRows
             /\ PairR(join_tuples[n]) # None => PairR(join_tuples[n])[1] \in RightRows
             /\ (PairL(join_tuples[n]) # None /\ PairR(join_tuples[n]) # None) =>
                   left[PairL(join_tuples[n])[1] + 1] = right[PairR(join_tuples[n])[1] + 1]

\* tables just built for an inner join of two different columns of the same
\* length
C25_Witness ==
    /\ JustBuilt /\ how = "Inner"
    /\ Len(left) = Len(right) /\ Len(left) >= 2
    /\ left # right

\* the probe side is the left table for left joins and when the left table
\* is strictly longer, the right table otherwise
ProbeSideLeft == how = "Left" \/ Len(left) > Len(right)

ProbeOf(t) == IF ProbeSideLeft THEN PairL(t) ELSE PairR(t)
BuildOf(t) == IF ProbeSideLeft THEN PairR(t) ELSE PairL(t)

\* C26: inner and left streams: the probe-side indices do not decrease and
\* the pairs of one probe row list the build indices in build-row order;
\* outer stream: the pairs with a probe-side index come before the pairs
\* with a build-side index only, their probe-side indices not decreasing
C26_OutputOrdering ==
    Done =>
        \A m, n \in DOMAIN join_tuples :
            m < n =>
               IF how = "Outer"
               THEN /\ ProbeOf(join_tuples[n]) # None => ProbeOf(join_tuples[m]) # None
                    /\ ProbeOf(join_tuples[n]) # None =>
                          ProbeOf(join_tuples[m])[1] <= ProbeOf(join_tuples[n])[1]
               ELSE /\ ProbeOf(join_tuples[m])[1] <= ProbeOf(join_tuples[n])[1]
                    /\ (/\ ProbeOf(join_tuples[m]) = ProbeOf(join_tuples[n])
                        /\ BuildOf(join_tuples[m]) # None
                        /\ BuildOf(join_tuples[n]) # None)
                       => BuildOf(join_tuples[m])[1] < BuildOf(join_tuples[n])[1]

\* a threaded inner join over two tasks whose hashed left table holds a key
\* twice, both rows paired with one probe row
C26_Witness ==
    /\ Done /\ how = "Inner" /\ Threaded /\ n_threads = 2
    /\ Len(left) = 2 /\ Len(right) = 2
    /\ left[1] = left[2] /\ right[2] = left[1]
    /\ Len(join_tuples) >= 2

\* C30: get_hash_tbl returns the table at index (P - (h mod P)) mod P, an
\* index within 0..P-1 that depends only on h mod P, for every hash h and
\* every table count P >= 1, also where h + i does not fit the hash word
C30_ShardSelection ==
    pc = "selected" =>
        /\ tbl_idx[1] \in 0..(n_tables - 1)
        /\ tbl_idx[1] = (n_tables - (hash % n_tables)) % n_tables

\* C21: an outer join on a single key column of float or categorical type
\* returns the joined table, as the inner and left joins on it do; it does
\* not abort while rebuilding the key column
C21_OuterOnEveryKeyType ==
    (Called /\ n_keys = 1 /\ how = "Outer" /\ dtype \in {"Float64", "Categorical"}) =>
        outcome = "ok"

\* C29: whenever POLARS_MAX_THREADS parses as an unsigned integer, 0
\* included, the thread count of a single-key inner or left join is at
\* least 1 and the join gets to build its hash tables
C29_AtLeastOneThread ==
    (Splitting /\ outcome # "expect") => (n_threads >= 1 /\ outcome = "ok")

(***************************************************************************)
(* Properties of the plan builder.                                         *)
(***************************************************************************)
\* the last builder call was method and it returned a plan
Returned(method) == n_calls > 0 /\ outcome = "ok" /\ call.method = method

ProjectionMethods == {"project", "project_local", "groupby"}

ReturnedProjection ==
    n_calls > 0 /\ outcome = "ok" /\ call.method \in ProjectionMethods

\* the expression list the returned plan stores for the last projection call
StoredExprs ==
    IF plan = prev THEN << >>
    ELSE IF plan.kind = "Aggregate" THEN plan.aggs
    ELSE plan.expr

HasWildcardRoot(e) ==
    \E i \in DOMAIN expr_to_root_column_exprs(e) :
        expr_to_root_column_exprs(e)[i].kind = "Wildcard"

HasWildcardNode(e) ==
    \E i \in DOMAIN expr_nodes(e) : expr_nodes(e)[i].kind = "Wildcard"

\* fields added in order: replaced where the name is in the schema built so
\* far, appended otherwise
RECURSIVE AddedInOrder(_, _)
AddedInOrder(fields, built) ==
    IF fields = << >> THEN built
    ELSE LET f == Head(fields)
             at == {c \in DOMAIN built : built[c].name = f.name}
         IN  AddedInOrder(Tail(fields),
                 IF at = {} THEN Append(built, f)
                 ELSE [c \in DOMAIN built |-> IF c \in at THEN f ELSE built[c]])

\* C11: with_columns stores the input schema with the added expressions'
\* fields processed in order, each replacing the field of its name in the
\* schema built so far or else appended, also when two added expressions
\* have the same output name
C11_HStackSchema ==
    Returned("with_columns") =>
        /\ plan.kind = "HStack"
        /\ plan.schema =
               AddedInOrder([e \in DOMAIN call.args |->
                                to_field(call.args[e], schema(prev), "Other").value],
                            schema(prev))

\* C12: melt stores the input fields whose names are not in value_vars, in
\* input order, then variable of string type, then value with the type of
\* the input field named by the first entry of value_vars, whatever id_vars
C12_MeltSchema ==
    Returned("melt") =>
        LET input == schema(prev)
            value_vars == call.args[2]
            kept == SelectSeq(input,
                        LAMBDA f : \A i \in DOMAIN value_vars : f.name # value_vars[i])
            n == Len(kept)
        IN  /\ plan.kind = "Melt"
            /\ Len(plan.schema) = n + 2
            /\ SubSeq(plan.schema, 1, n) = kept
            /\ plan.schema[n + 1] = Field("variable", "Utf8")
            /\ plan.schema[n + 2].name = "value"
            /\ \E c \in DOMAIN input :
                   /\ input[c].name = value_vars[1]
                   /\ plan.schema[n + 2].dtype = input[c].dtype

\* melt of a table of two columns of different types, with two value_vars
\* whose first entry is the second column, and with an id_vars entry
C12_Witness ==
    /\ Returned("melt")
    /\ call.args = << <<"a">>, <<"b", "a">> >>
    /\ Len(schema(prev)) = 2

\* C13: when the list given to project, project_local or groupby contains
\* Except(col(n)), the rewritten list has no Except entry and no expression
\* whose root column name is n
C13_ExceptSuppresses ==
    ReturnedProjection =>
        \A i \in DOMAIN call.args :
            (call.args[i].kind = "Except" /\ call.args[i].expr.kind = "Column") =>
                \A j \in DOMAIN StoredExprs :
                    /\ StoredExprs[j].kind # "Except"
                    /\ expr_to_root_column_name(StoredExprs[j])
                           # Some(call.args[i].expr.name)

\* the list with each expression of a wildcard root replaced, in place, by
\* one copy per field that has every wildcard replaced by the field's column
RECURSIVE ExpandedInPlace(_, _)
ExpandedInPlace(exprs, fields) ==
    IF exprs = << >> THEN << >>
    ELSE (IF HasWildcardRoot(Head(exprs))
          THEN [c \in DOMAIN fields |->
                   replace_wildcard_everywhere(Head(exprs), fields[c].name)]
          ELSE <<Head(exprs)>>)
         \o ExpandedInPlace(Tail(exprs), fields)

\* C14: for a list without Except and without count(*), the rewritten list
\* has each expression of a wildcard root replaced in place by one copy per
\* field, in schema order, the wildcard replaced by the field's column, and
\* the other expressions unchanged
C14_WildcardExpansion ==
    (/\ ReturnedProjection
     /\ \A i \in DOMAIN call.args :
            /\ call.args[i].kind # "Except"
            /\ ~has_expr(call.args[i], AggCount(Wildcard)))
    => StoredExprs = ExpandedInPlace(call.args, schema(prev))

\* the conjunction of the expressions of a list, in order
RECURSIVE AndOf(_)
AndOf(exprs) ==
    IF Len(exprs) = 1 THEN exprs[1]
    ELSE BinaryExpr(AndOf(SubSeq(exprs, 1, Len(exprs) - 1)), "And", exprs[Len(exprs)])

\* C15: filter with a predicate that contains a wildcard stores the AND of
\* one copy of the predicate per input field, every wildcard replaced by the
\* field's column, so that no wildcard remains; a predicate without wildcard
\* is stored unchanged
C15_FilterWildcard ==
    Returned("filter") =>
        /\ plan.kind = "Selection"
        /\ IF HasWildcardNode(call.args)
           THEN /\ plan.predicate =
                       AndOf([c \in DOMAIN schema(prev) |->
                                 replace_wildcard_everywhere(call.args,
                                                             schema(prev)[c].name)])
                /\ ~HasWildcardNode(plan.predicate)
           ELSE plan.predicate = call.args

BuilderMethods ==
    {"cache", "project", "project_local", "fill_none", "with_columns", "filter",
     "groupby", "sort", "explode", "melt", "drop_duplicates", "slice", "join", "map"}

ReturnedAny == n_calls > 0 /\ outcome = "ok" /\ call.method \in BuilderMethods

\* the input of a node, the left input for a join
Input(lp) == IF lp.kind = "Join" THEN lp.input_left ELSE lp.input

\* number of nodes above the scan
RECURSIVE Depth(_)
Depth(lp) == IF lp.kind = "DataFrameScan" THEN 0 ELSE 1 + Depth(Input(lp))

\* the last call was a projection whose rewritten expression list is empty
EmptyProjection ==
    \/ /\ call.method \in {"project", "project_local"}
       /\ rewrite_projections(call.args, schema(prev)).value = << >>
    \/ /\ call.method = "fill_none"
       /\ schema(prev) = << >>

\* C16 as stated: every builder method returns a new node whose input is
\* the previous plan, so that n calls on a scan give a chain of n nodes
C16_WrapsPreviousRoot ==
    ReturnedAny =>
        /\ plan # prev
        /\ Input(plan) = prev
        /\ Depth(plan) = n_calls

\* C16 amended: a builder method returns a new node whose input is the
\* previous plan, except a projection whose rewritten expression list is
\* empty, which returns the previous plan itself; n calls give a chain of
\* at most n nodes
C16_WrapsUnlessEmptyProjection ==
    ReturnedAny =>
        /\ IF EmptyProjection
           THEN plan = prev
           ELSE /\ plan # prev
                /\ Input(plan) = prev
                /\ Depth(plan) = Depth(prev) + 1
        /\ Depth(plan) <= n_calls

\* a projection of an empty rewritten list called on a plan of one node
C16_Witness ==
    /\ ReturnedAny
    /\ call.method = "project"
    /\ EmptyProjection
    /\ n_calls = 2
    /\ Depth(prev) = 1

PreservingMethods == {"cache", "filter", "sort", "explode", "drop_duplicates", "slice"}

\* C27: after cache, filter, sort, explode, drop_duplicates or slice the
\* new root reports the schema of the plan it was called on; a Udf node
\* reports the schema given to map, or its input's schema when none was
\* given
C27_SchemaPreserved ==
    /\ (n_calls > 0 /\ outcome = "ok" /\ call.method \in PreservingMethods) =>
          /\ plan # prev
          /\ schema(plan) = schema(prev)
    /\ Returned("map") =>
          /\ plan.kind = "Udf"
          /\ schema(plan) = IF call.args # None THEN call.args[1] ELSE schema(prev)

\* slice called on the Udf node of a map that was given a schema other than
\* its input's: two calls in a row, the new root reporting the given schema
C27_Witness ==
    /\ n_calls = 2 /\ outcome = "ok"
    /\ call.method = "slice"
    /\ prev.kind = "Udf"
    /\ prev.schema # None
    /\ schema(plan) = prev.schema[1]
    /\ schema(plan) # schema(prev.input)

\* s is t with some entries left out, the others in the order of t
RECURSIVE IsSubseq(_, _)
IsSubseq(s, t) ==
    IF s = << >> THEN TRUE
    ELSE IF t = << >> THEN FALSE
    ELSE IF Head(s) = Head(t) THEN IsSubseq(Tail(s), Tail(t))
    ELSE IsSubseq(s, Tail(t))

\* C28: when rewrite_projections removes the expression of an excepted
\* column the remaining expressions keep their relative order: the stored
\* list is the expanded list with entries left out
C28_ExceptKeepsOrder ==
    (/\ ReturnedProjection
     /\ \E i \in DOMAIN call.args : call.args[i].kind = "Except")
    => IsSubseq(StoredExprs,
                rewrite_loop(call.args, schema(prev), << >>, << >>).value.result)

(***************************************************************************)
(* The join on two key columns against the join on one encoded column.     *)
(***************************************************************************)
\* both joins of the test have been made
BothJoined == pc = "multi" /\ joined # None /\ joined_hack # None

\* the right non-key column of a joined table
HamOf(df) == column(df, "ham").values

\* s and t hold the same values the same number of times
SameBag(s, t) ==
    /\ Len(s) = Len(t)
    /\ \A x \in Range(s) \cup Range(t) : Count(s, x) = Count(t, x)

\* C22: the join on the key columns (a, b) and (foo, bar) and the join on
\* one column that encodes both keys of a row carry the same values of the
\* right non-key column, row for row for Inner and Left joins; for an Outer
\* join row for row on every row that carries a left row and whenever the
\* left table is not longer than the right, and as the same values with the
\* same multiplicities in every case
C22_MultipleAsEncoded ==
    BothJoined =>
        /\ how \in {"Inner", "Left"} => HamOf(joined) = HamOf(joined_hack)
        /\ how = "Outer" =>
              /\ SameBag(HamOf(joined), HamOf(joined_hack))
              /\ \A r \in DOMAIN HamOf(joined) :
                    column(joined, "c").values[r] # None
                    => HamOf(joined)[r] = HamOf(joined_hack)[r]
              /\ height(df_left) <= height(df_right)
                 => HamOf(joined) = HamOf(joined_hack)

\* as stated: row for row the same values for Left, Inner and Outer joins
C22_RowForRow == BothJoined => HamOf(joined) = HamOf(joined_hack)

\* an Inner join of a longer left table with a right table that repeats a
\* key, both joins made and more rows out than either table holds
C22_Witness ==
    /\ BothJoined
    /\ how = "Inner"
    /\ height(df_left) = 3 /\ height(df_right) = 2
    /\ Len(HamOf(joined)) > 3
    /\ Cardinality(Range(HamOf(joined))) = 2
    /\ HamOf(joined) = HamOf(joined_hack)

====
